---- MODULE Spec2Model ----
(***************************************************************************)
(* The indexed quad storage engine of ic-oxigraph: the eleven column       *)
(* families, the StorageReader and StorageWriter operations over them, the *)
(* Store level operations that wrap one writer operation in a transaction, *)
(* and the key-value backend contract (snapshots, transactions) they run   *)
(* on.                                                                     *)
(***************************************************************************)
EXTENDS Integers, Sequences, FiniteSets, TLC

\* ------------------------------------------------------------------ bounds
\* The largest number of quads an insert is let to bring the store to.
MaxQuads == 2
\* The largest number of writer operations the closures of the concurrent
\* transactions perform together.
MaxTxOps == 2

\* The largest number of calls of next() on one iterator.
MaxPolls == 3

\* The largest number of load_graph, load_dataset and extend calls.
MaxLoads == 2

\* The largest number of custom_getrandom requests.
MaxDraws == 3

\* ------------------------------------------------------------------- terms
DefaultGraph == "default"
NoneV == "none"

Subjects == {"s1", "s2"}
Predicates == {"p1", "p2"}
Objects == {"o1", "l1"}
NamedGraphs == {"g1", "g2"}
GraphNames == NamedGraphs \cup {DefaultGraph}

\* The terms whose encoded form carries a hash only ("l1" is a small literal,
\* stored inline).
HashedTerms == Subjects \cup Predicates \cup {"o1"} \cup NamedGraphs

QuadUniverse ==
    [subject : Subjects, predicate : Predicates, object : Objects, graph_name : GraphNames]

Quad(s, p, o, g) == [subject |-> s, predicate |-> p, object |-> o, graph_name |-> g]

is_default_graph(g) == g = DefaultGraph

\* StrHash::new: the content hash of a lexical form (injective on the terms used).
StrHash(t) ==
    CASE t = "s1" -> 11 [] t = "s2" -> 12 [] t = "p1" -> 21 [] t = "p2" -> 22
      [] t = "o1" -> 31 [] t = "g1" -> 41 [] t = "g2" -> 42 [] t = "x1" -> 51
      [] OTHER -> 0

\* The position of a term's encoded bytes in the byte order of keys.
TermRank(t) ==
    CASE t = "s1" -> 1 [] t = "s2" -> 2 [] t = "p1" -> 3 [] t = "p2" -> 4
      [] t = "o1" -> 5 [] t = "g1" -> 6 [] t = "g2" -> 7 [] t = "l1" -> 8 [] OTHER -> 9

\* ---------------------------------------------------------------- key encoder
write_term(t) == <<t>>
encode_term(t) == <<t>>
encode_term_pair(t1, t2) == <<t1, t2>>
encode_term_triple(t1, t2, t3) == <<t1, t2, t3>>
encode_term_quad(t1, t2, t3, t4) == <<t1, t2, t3, t4>>

write_spo_quad(q) == <<q.subject, q.predicate, q.object>>
write_pos_quad(q) == <<q.predicate, q.object, q.subject>>
write_osp_quad(q) == <<q.object, q.subject, q.predicate>>
write_spog_quad(q) == <<q.subject, q.predicate, q.object, q.graph_name>>
write_posg_quad(q) == <<q.predicate, q.object, q.subject, q.graph_name>>
write_ospg_quad(q) == <<q.object, q.subject, q.predicate, q.graph_name>>
write_gspo_quad(q) == <<q.graph_name, q.subject, q.predicate, q.object>>
write_gpos_quad(q) == <<q.graph_name, q.predicate, q.object, q.subject>>
write_gosp_quad(q) == <<q.graph_name, q.object, q.subject, q.predicate>>

\* QuadEncoding::decode: split the key into its terms by the index's letter order.
decode(encoding, k) ==
    CASE encoding = "Spog" -> Quad(k[1], k[2], k[3], k[4])
      [] encoding = "Posg" -> Quad(k[3], k[1], k[2], k[4])
      [] encoding = "Ospg" -> Quad(k[2], k[3], k[1], k[4])
      [] encoding = "Gspo" -> Quad(k[2], k[3], k[4], k[1])
      [] encoding = "Gpos" -> Quad(k[4], k[2], k[3], k[1])
      [] encoding = "Gosp" -> Quad(k[3], k[4], k[2], k[1])
      [] encoding = "Dspo" -> Quad(k[1], k[2], k[3], DefaultGraph)
      [] encoding = "Dpos" -> Quad(k[3], k[1], k[2], DefaultGraph)
      [] encoding = "Dosp" -> Quad(k[2], k[3], k[1], DefaultGraph)

decode_term(k) == k[1]

\* ------------------------------------------------------------ column families
ColumnFamilies ==
    {"id2str", "spog", "posg", "ospg", "gspo", "gpos", "gosp", "dspo", "dpos", "dosp", "graphs"}

\* Db::new: every column family empty.
EmptyDb == [cf \in ColumnFamilies |-> {}]

\* ---------------------------------------------------------- backend: reading
IsPrefix(prefix, k) ==
    /\ Len(prefix) <= Len(k)
    /\ \A i \in 1..Len(prefix) : prefix[i] = k[i]

\* Byte order of two keys of one column family.
KeyLess(k1, k2) ==
    \E i \in 1..Len(k1) :
        /\ i <= Len(k2)
        /\ TermRank(k1[i]) < TermRank(k2[i])
        /\ \A j \in 1..(i - 1) : k1[j] = k2[j]

RECURSIVE SortKeys(_)
SortKeys(keys) ==
    IF keys = {} THEN << >>
    ELSE LET first == CHOOSE k \in keys : \A other \in keys \ {k} : KeyLess(k, other)
         IN  <<first>> \o SortKeys(keys \ {first})

\* Reader::scan_prefix: the keys beginning with the prefix, in ascending order.
scan_prefix(v, cf, prefix) == SortKeys({k \in v[cf] : IsPrefix(prefix, k)})

\* Reader::iter: every key of the column family, in ascending order.
iter(v, cf) == SortKeys(v[cf])

contains_key(v, cf, k) == k \in v[cf]

\* Reader::get on id2str: the value bound to the key, NoneV when there is none.
get(v, cf, k) ==
    IF \E e \in v[cf] : e[1] = k THEN (CHOOSE e \in v[cf] : e[1] = k)[2] ELSE NoneV

Range(seq) == {seq[i] : i \in 1..Len(seq)}

\* ------------------------------------------------------------- StorageReader
\* A reader is the content v of the column families it reads: a snapshot of the
\* database, or the view of an open transaction.

\* DecodingQuadIterator drained: the keys of the scan, each decoded.
inner_quads(v, column_family, prefix, encoding) ==
    LET keys == scan_prefix(v, column_family, prefix)
    IN  [i \in 1..Len(keys) |-> decode(encoding, keys[i])]

spog_quads(v, prefix) == inner_quads(v, "spog", prefix, "Spog")
posg_quads(v, prefix) == inner_quads(v, "posg", prefix, "Posg")
ospg_quads(v, prefix) == inner_quads(v, "ospg", prefix, "Ospg")
gspo_quads(v, prefix) == inner_quads(v, "gspo", prefix, "Gspo")
gpos_quads(v, prefix) == inner_quads(v, "gpos", prefix, "Gpos")
gosp_quads(v, prefix) == inner_quads(v, "gosp", prefix, "Gosp")
dspo_quads(v, prefix) == inner_quads(v, "dspo", prefix, "Dspo")
dpos_quads(v, prefix) == inner_quads(v, "dpos", prefix, "Dpos")
dosp_quads(v, prefix) == inner_quads(v, "dosp", prefix, "Dosp")

\* ChainedDecodingQuadIterator drained: the first source, then the second.
ChainedPair_SecondFirst(first, second) == second \o first
ChainedPair(first, second) == first \o second
ChainedNew(first) == first

\* A bug len could have: the named-graph count is taken from GRAPHS.
len_CountsGraphs(v) == Cardinality(v["graphs"]) + Cardinality(v["dspo"])

len(v) == Cardinality(v["gspo"]) + Cardinality(v["dspo"])

\* A bug is_empty could have: registered graphs count as content.
is_empty_WithGraphs(v) == v["gspo"] = {} /\ v["dspo"] = {} /\ v["graphs"] = {}

is_empty(v) == v["gspo"] = {} /\ v["dspo"] = {}

\* A bug contains could have: named-graph quads are looked up in SPOG with the
\* GSPO key.
contains_read_GspoKeyInSpog(quad) ==
    IF is_default_graph(quad.graph_name)
    THEN [cf |-> "dspo", key |-> write_spo_quad(quad)]
    ELSE [cf |-> "spog", key |-> write_gspo_quad(quad)]

\* The column family and the key StorageReader::contains hands to
\* Reader::contains_key.
contains_read(quad) ==
    IF is_default_graph(quad.graph_name)
    THEN [cf |-> "dspo", key |-> write_spo_quad(quad)]
    ELSE [cf |-> "gspo", key |-> write_gspo_quad(quad)]

contains(v, quad) == contains_key(v, contains_read(quad).cf, contains_read(quad).key)

quads(v) == ChainedPair(dspo_quads(v, << >>), gspo_quads(v, << >>))

quads_in_named_graph(v) == gspo_quads(v, << >>)

quads_for_subject(v, subject) ==
    ChainedPair(dspo_quads(v, encode_term(subject)), spog_quads(v, encode_term(subject)))

quads_for_subject_predicate(v, subject, predicate) ==
    ChainedPair(dspo_quads(v, encode_term_pair(subject, predicate)),
                spog_quads(v, encode_term_pair(subject, predicate)))

quads_for_subject_predicate_object(v, subject, predicate, object) ==
    ChainedPair(dspo_quads(v, encode_term_triple(subject, predicate, object)),
                spog_quads(v, encode_term_triple(subject, predicate, object)))

\* A bug quads_for_subject_object could have: the prefix is built in the order
\* of its arguments (subject, object), not in the order of the OSP indices.
quads_for_subject_object_ArgOrder(v, subject, object) ==
    ChainedPair(dosp_quads(v, encode_term_pair(subject, object)),
                ospg_quads(v, encode_term_pair(subject, object)))

quads_for_subject_object(v, subject, object) ==
    ChainedPair(dosp_quads(v, encode_term_pair(object, subject)),
                ospg_quads(v, encode_term_pair(object, subject)))

quads_for_predicate(v, predicate) ==
    ChainedPair(dpos_quads(v, encode_term(predicate)), posg_quads(v, encode_term(predicate)))

quads_for_predicate_object(v, predicate, object) ==
    ChainedPair(dpos_quads(v, encode_term_pair(predicate, object)),
                posg_quads(v, encode_term_pair(predicate, object)))

quads_for_object(v, object) ==
    ChainedPair(dosp_quads(v, encode_term(object)), ospg_quads(v, encode_term(object)))

quads_for_graph(v, graph_name) ==
    ChainedNew(IF is_default_graph(graph_name)
               THEN dspo_quads(v, << >>)
               ELSE gspo_quads(v, encode_term(graph_name)))

quads_for_subject_graph(v, subject, graph_name) ==
    ChainedNew(IF is_default_graph(graph_name)
               THEN dspo_quads(v, encode_term(subject))
               ELSE gspo_quads(v, encode_term_pair(graph_name, subject)))

quads_for_subject_predicate_graph(v, subject, predicate, graph_name) ==
    ChainedNew(IF is_default_graph(graph_name)
               THEN dspo_quads(v, encode_term_pair(subject, predicate))
               ELSE gspo_quads(v, encode_term_triple(graph_name, subject, predicate)))

quads_for_subject_predicate_object_graph(v, subject, predicate, object, graph_name) ==
    ChainedNew(IF is_default_graph(graph_name)
               THEN dspo_quads(v, encode_term_triple(subject, predicate, object))
               ELSE gspo_quads(v, encode_term_quad(graph_name, subject, predicate, object)))

quads_for_subject_object_graph(v, subject, object, graph_name) ==
    ChainedNew(IF is_default_graph(graph_name)
               THEN dosp_quads(v, encode_term_pair(object, subject))
               ELSE gosp_quads(v, encode_term_triple(graph_name, object, subject)))

quads_for_predicate_graph(v, predicate, graph_name) ==
    ChainedNew(IF is_default_graph(graph_name)
               THEN dpos_quads(v, encode_term(predicate))
               ELSE gpos_quads(v, encode_term_pair(graph_name, predicate)))

quads_for_predicate_object_graph(v, predicate, object, graph_name) ==
    ChainedNew(IF is_default_graph(graph_name)
               THEN dpos_quads(v, encode_term_pair(predicate, object))
               ELSE gpos_quads(v, encode_term_triple(graph_name, predicate, object)))

quads_for_object_graph(v, object, graph_name) ==
    ChainedNew(IF is_default_graph(graph_name)
               THEN dosp_quads(v, encode_term(object))
               ELSE gosp_quads(v, encode_term_pair(graph_name, object)))

\* The 16-case dispatch; an unbound position is NoneV.
quads_for_pattern(v, subject, predicate, object, graph_name) ==
    IF subject # NoneV THEN
        IF predicate # NoneV THEN
            IF object # NoneV THEN
                IF graph_name # NoneV
                THEN quads_for_subject_predicate_object_graph(v, subject, predicate, object, graph_name)
                ELSE quads_for_subject_predicate_object(v, subject, predicate, object)
            ELSE
                IF graph_name # NoneV
                THEN quads_for_subject_predicate_graph(v, subject, predicate, graph_name)
                ELSE quads_for_subject_predicate(v, subject, predicate)
        ELSE
            IF object # NoneV THEN
                IF graph_name # NoneV
                THEN quads_for_subject_object_graph(v, subject, object, graph_name)
                ELSE quads_for_subject_object(v, subject, object)
            ELSE
                IF graph_name # NoneV
                THEN quads_for_subject_graph(v, subject, graph_name)
                ELSE quads_for_subject(v, subject)
    ELSE
        IF predicate # NoneV THEN
            IF object # NoneV THEN
                IF graph_name # NoneV
                THEN quads_for_predicate_object_graph(v, predicate, object, graph_name)
                ELSE quads_for_predicate_object(v, predicate, object)
            ELSE
                IF graph_name # NoneV
                THEN quads_for_predicate_graph(v, predicate, graph_name)
                ELSE quads_for_predicate(v, predicate)
        ELSE
            IF object # NoneV THEN
                IF graph_name # NoneV
                THEN quads_for_object_graph(v, object, graph_name)
                ELSE quads_for_object(v, object)
            ELSE
                IF graph_name # NoneV
                THEN quads_for_graph(v, graph_name)
                ELSE quads(v)

\* DecodingGraphIterator drained: every key of GRAPHS, decoded.
named_graphs(v) ==
    LET keys == iter(v, "graphs")
    IN  [i \in 1..Len(keys) |-> decode_term(keys[i])]

contains_named_graph(v, graph_name) == contains_key(v, "graphs", encode_term(graph_name))

get_str(v, key) == get(v, "id2str", key)

contains_str(v, key) == \E e \in v["id2str"] : e[1] = key

\* ------------------------------------------------------ backend: transaction
\* A writer w is [view, probes, base]: the column families as the open
\* transaction sees them (its snapshot overlaid with its own writes), the keys
\* its *_for_update probes have put in its conflict set, and the content the
\* transaction began on.
Writer(v) == [view |-> v, probes |-> {}, base |-> v]

\* A bug reader() could have: the reader is taken from the database, so it reads
\* the content the transaction began on.
reader_OfDatabase(w) == w.base

\* StorageWriter::reader: a reader on the transaction, which sees its writes.
reader(w) == w.view

\* Transaction::contains_key_for_update: the key joins the conflict set.
Probe(w, cf, k) == [w EXCEPT !.probes = @ \cup {<<cf, k>>}]

insert_empty(w, cf, k) == [w EXCEPT !.view[cf] = @ \cup {k}]

tx_remove(w, cf, k) == [w EXCEPT !.view[cf] = @ \ {k}]

\* Transaction::insert: binds the key to the value, replacing an earlier binding.
tx_insert(w, cf, k, value) ==
    [w EXCEPT !.view[cf] = {e \in @ : e[1] # k} \cup {<<k, value>>}]

\* ------------------------------------------------------------- StorageWriter
\* A writer operation yields [w, ret]: the writer after it and its return value.
UnitV == "unit"

insert_str(w, key, value) == tx_insert(w, "id2str", key, value)

\* numeric_encoder::insert_term: one side-table insert for a term encoded by its
\* hash, none for a term stored inline.
insert_term(w, term) ==
    IF term \in HashedTerms THEN insert_str(w, StrHash(term), term) ELSE w

\* A bug insert_graph_name could have: the graph's lexical form is not stored.
insert_graph_name_Skips(w, graph_name) == w

insert_graph_name(w, graph_name) ==
    IF is_default_graph(graph_name) THEN w ELSE insert_term(w, graph_name)

\* A bug the default-graph branch could have: the quad is also written to SPOG,
\* with the default graph as its fourth term.
insert_default_AlsoSpog(w, quad) ==
    LET w0 == Probe(w, "dspo", write_spo_quad(quad))
    IN  IF contains_key(w.view, "dspo", write_spo_quad(quad))
        THEN [w |-> w0, ret |-> FALSE]
        ELSE LET w1 == insert_empty(w0, "dspo", write_spo_quad(quad))
                 w2 == insert_empty(w1, "dpos", write_pos_quad(quad))
                 w3 == insert_empty(w2, "dosp", write_osp_quad(quad))
                 w3b == insert_empty(w3, "spog", write_spog_quad(quad))
                 w4 == insert_term(w3b, quad.subject)
                 w5 == insert_term(w4, quad.predicate)
                 w6 == insert_term(w5, quad.object)
             IN  [w |-> w6, ret |-> TRUE]

\* insert, the branch of a default-graph quad.
insert_default(w, quad) ==
    LET w0 == Probe(w, "dspo", write_spo_quad(quad))
    IN  IF contains_key(w.view, "dspo", write_spo_quad(quad))
        THEN [w |-> w0, ret |-> FALSE]
        ELSE LET w1 == insert_empty(w0, "dspo", write_spo_quad(quad))
                 w2 == insert_empty(w1, "dpos", write_pos_quad(quad))
                 w3 == insert_empty(w2, "dosp", write_osp_quad(quad))
                 w4 == insert_term(w3, quad.subject)
                 w5 == insert_term(w4, quad.predicate)
                 w6 == insert_term(w5, quad.object)
             IN  [w |-> w6, ret |-> TRUE]

\* A bug the named-graph branch could have: the POSG key is never written.
insert_named_NoPosg(w, quad) ==
    LET w0 == Probe(w, "spog", write_spog_quad(quad))
    IN  IF contains_key(w.view, "spog", write_spog_quad(quad))
        THEN [w |-> w0, ret |-> FALSE]
        ELSE LET w1 == insert_empty(w0, "spog", write_spog_quad(quad))
                 w3 == insert_empty(w1, "ospg", write_ospg_quad(quad))
                 w4 == insert_empty(w3, "gspo", write_gspo_quad(quad))
                 w5 == insert_empty(w4, "gpos", write_gpos_quad(quad))
                 w6 == insert_empty(w5, "gosp", write_gosp_quad(quad))
                 w7 == insert_term(w6, quad.subject)
                 w8 == insert_term(w7, quad.predicate)
                 w9 == insert_term(w8, quad.object)
                 w10 == Probe(w9, "graphs", write_term(quad.graph_name))
                 w11 == IF contains_key(w9.view, "graphs", write_term(quad.graph_name))
                        THEN w10
                        ELSE insert_graph_name(
                                 insert_empty(w10, "graphs", write_term(quad.graph_name)),
                                 quad.graph_name)
             IN  [w |-> w11, ret |-> TRUE]

\* A bug the named-graph branch could have: the graph is not registered.
insert_named_NoRegistry(w, quad) ==
    LET w0 == Probe(w, "spog", write_spog_quad(quad))
    IN  IF contains_key(w.view, "spog", write_spog_quad(quad))
        THEN [w |-> w0, ret |-> FALSE]
        ELSE LET w1 == insert_empty(w0, "spog", write_spog_quad(quad))
                 w2 == insert_empty(w1, "posg", write_posg_quad(quad))
                 w3 == insert_empty(w2, "ospg", write_ospg_quad(quad))
                 w4 == insert_empty(w3, "gspo", write_gspo_quad(quad))
                 w5 == insert_empty(w4, "gpos", write_gpos_quad(quad))
                 w6 == insert_empty(w5, "gosp", write_gosp_quad(quad))
                 w7 == insert_term(w6, quad.subject)
                 w8 == insert_term(w7, quad.predicate)
                 w9 == insert_term(w8, quad.object)
             IN  [w |-> w9, ret |-> TRUE]

\* insert, the branch of a named-graph quad.
insert_named(w, quad) ==
    LET w0 == Probe(w, "spog", write_spog_quad(quad))
    IN  IF contains_key(w.view, "spog", write_spog_quad(quad))
        THEN [w |-> w0, ret |-> FALSE]
        ELSE LET w1 == insert_empty(w0, "spog", write_spog_quad(quad))
                 w2 == insert_empty(w1, "posg", write_posg_quad(quad))
                 w3 == insert_empty(w2, "ospg", write_ospg_quad(quad))
                 w4 == insert_empty(w3, "gspo", write_gspo_quad(quad))
                 w5 == insert_empty(w4, "gpos", write_gpos_quad(quad))
                 w6 == insert_empty(w5, "gosp", write_gosp_quad(quad))
                 w7 == insert_term(w6, quad.subject)
                 w8 == insert_term(w7, quad.predicate)
                 w9 == insert_term(w8, quad.object)
                 w10 == Probe(w9, "graphs", write_term(quad.graph_name))
                 w11 == IF contains_key(w9.view, "graphs", write_term(quad.graph_name))
                        THEN w10
                        ELSE insert_graph_name(
                                 insert_empty(w10, "graphs", write_term(quad.graph_name)),
                                 quad.graph_name)
             IN  [w |-> w11, ret |-> TRUE]

\* A bug insert could have: the outcome of the existence probe is dropped, so
\* the call reports a new quad every time.
insert_AlwaysNew(w, quad) ==
    LET r == IF is_default_graph(quad.graph_name)
             THEN insert_default(w, quad)
             ELSE insert_named(w, quad)
    IN  [r EXCEPT !.ret = TRUE]

\* A bug insert could have: the existence probes are plain reads (contains_key),
\* so no key joins the transaction's conflict set.
insert_NoConflictSet(w, quad) ==
    LET r == IF is_default_graph(quad.graph_name)
             THEN insert_default(w, quad)
             ELSE insert_named(w, quad)
    IN  [r EXCEPT !.w.probes = w.probes]

insert(w, quad) ==
    IF is_default_graph(quad.graph_name) THEN insert_default(w, quad) ELSE insert_named(w, quad)

\* A bug insert_named_graph could have: the result of the probe is returned as
\* it is, so the call reports true for a graph that was there.
insert_named_graph_ReturnsFound(w, graph_name) ==
    LET w0 == Probe(w, "graphs", write_term(graph_name))
    IN  IF contains_key(w.view, "graphs", write_term(graph_name))
        THEN [w |-> w0, ret |-> TRUE]
        ELSE [w |-> insert_term(insert_empty(w0, "graphs", write_term(graph_name)), graph_name),
              ret |-> FALSE]

insert_named_graph(w, graph_name) ==
    LET w0 == Probe(w, "graphs", write_term(graph_name))
    IN  IF contains_key(w.view, "graphs", write_term(graph_name))
        THEN [w |-> w0, ret |-> FALSE]
        ELSE [w |-> insert_term(insert_empty(w0, "graphs", write_term(graph_name)), graph_name),
              ret |-> TRUE]

\* A bug the default-graph branch could have: the DOSP key is left behind.
remove_encoded_default_KeepsDosp(w, quad) ==
    LET w0 == Probe(w, "dspo", write_spo_quad(quad))
    IN  IF contains_key(w.view, "dspo", write_spo_quad(quad))
        THEN LET w1 == tx_remove(w0, "dspo", write_spo_quad(quad))
                 w2 == tx_remove(w1, "dpos", write_pos_quad(quad))
             IN  [w |-> w2, ret |-> TRUE]
        ELSE [w |-> w0, ret |-> FALSE]

\* A bug the default-graph branch could have: the strings of the removed quad
\* are reclaimed.
remove_encoded_default_ReclaimsStrings(w, quad) ==
    LET w0 == Probe(w, "dspo", write_spo_quad(quad))
    IN  IF contains_key(w.view, "dspo", write_spo_quad(quad))
        THEN LET w1 == tx_remove(w0, "dspo", write_spo_quad(quad))
                 w2 == tx_remove(w1, "dpos", write_pos_quad(quad))
                 w3 == tx_remove(w2, "dosp", write_osp_quad(quad))
                 gone == {StrHash(quad.subject), StrHash(quad.predicate),
                          StrHash(quad.object)}
             IN  [w |-> [w3 EXCEPT !.view["id2str"] = {e \in @ : e[1] \notin gone}],
                  ret |-> TRUE]
        ELSE [w |-> w0, ret |-> FALSE]

\* remove_encoded, the branch of a default-graph quad.
remove_encoded_default(w, quad) ==
    LET w0 == Probe(w, "dspo", write_spo_quad(quad))
    IN  IF contains_key(w.view, "dspo", write_spo_quad(quad))
        THEN LET w1 == tx_remove(w0, "dspo", write_spo_quad(quad))
                 w2 == tx_remove(w1, "dpos", write_pos_quad(quad))
                 w3 == tx_remove(w2, "dosp", write_osp_quad(quad))
             IN  [w |-> w3, ret |-> TRUE]
        ELSE [w |-> w0, ret |-> FALSE]

\* A bug the named-graph branch could have: a graph left without quads is taken
\* out of the registry.
remove_encoded_named_DropsEmptyGraph(w, quad) ==
    LET w0 == Probe(w, "spog", write_spog_quad(quad))
    IN  IF contains_key(w.view, "spog", write_spog_quad(quad))
        THEN LET w1 == tx_remove(w0, "spog", write_spog_quad(quad))
                 w2 == tx_remove(w1, "posg", write_posg_quad(quad))
                 w3 == tx_remove(w2, "ospg", write_ospg_quad(quad))
                 w4 == tx_remove(w3, "gspo", write_gspo_quad(quad))
                 w5 == tx_remove(w4, "gpos", write_gpos_quad(quad))
                 w6 == tx_remove(w5, "gosp", write_gosp_quad(quad))
             IN  [w |-> IF scan_prefix(w6.view, "gspo", write_term(quad.graph_name)) = << >>
                        THEN tx_remove(w6, "graphs", write_term(quad.graph_name))
                        ELSE w6,
                  ret |-> TRUE]
        ELSE [w |-> w0, ret |-> FALSE]

\* remove_encoded, the branch of a named-graph quad.
remove_encoded_named(w, quad) ==
    LET w0 == Probe(w, "spog", write_spog_quad(quad))
    IN  IF contains_key(w.view, "spog", write_spog_quad(quad))
        THEN LET w1 == tx_remove(w0, "spog", write_spog_quad(quad))
                 w2 == tx_remove(w1, "posg", write_posg_quad(quad))
                 w3 == tx_remove(w2, "ospg", write_ospg_quad(quad))
                 w4 == tx_remove(w3, "gspo", write_gspo_quad(quad))
                 w5 == tx_remove(w4, "gpos", write_gpos_quad(quad))
                 w6 == tx_remove(w5, "gosp", write_gosp_quad(quad))
             IN  [w |-> w6, ret |-> TRUE]
        ELSE [w |-> w0, ret |-> FALSE]

\* A bug remove_encoded could have: the GSPO key of a named-graph quad is left
\* behind.
remove_encoded_KeepsGspo(w, quad) ==
    IF is_default_graph(quad.graph_name)
    THEN remove_encoded_default(w, quad)
    ELSE LET r == remove_encoded_named(w, quad)
         IN  [r EXCEPT !.w.view["gspo"] = w.view["gspo"]]

remove_encoded(w, quad) ==
    IF is_default_graph(quad.graph_name)
    THEN remove_encoded_default(w, quad)
    ELSE remove_encoded_named(w, quad)

remove(w, quad) == remove_encoded(w, quad)

\* for quad in <iterator> { self.remove_encoded(&quad?)?; }
RECURSIVE RemoveEach(_, _)
RemoveEach(w, quadSeq) ==
    IF quadSeq = << >> THEN w
    ELSE RemoveEach(remove_encoded(w, Head(quadSeq)).w, Tail(quadSeq))

\* A bug clear_graph could have: a named graph is cleared by removing it.
clear_graph_Unregisters(w, graph_name) ==
    IF is_default_graph(graph_name)
    THEN [w |-> RemoveEach(w, quads_for_graph(reader(w), DefaultGraph)), ret |-> UnitV]
    ELSE LET w0 == Probe(w, "graphs", write_term(graph_name))
         IN  IF contains_key(w.view, "graphs", write_term(graph_name))
             THEN [w |-> tx_remove(RemoveEach(w0, quads_for_graph(reader(w0), graph_name)),
                                   "graphs", write_term(graph_name)),
                   ret |-> UnitV]
             ELSE [w |-> w0, ret |-> UnitV]

clear_graph(w, graph_name) ==
    IF is_default_graph(graph_name)
    THEN [w |-> RemoveEach(w, quads_for_graph(reader(w), DefaultGraph)), ret |-> UnitV]
    ELSE LET w0 == Probe(w, "graphs", write_term(graph_name))
         IN  IF contains_key(w.view, "graphs", write_term(graph_name))
             THEN [w |-> RemoveEach(w0, quads_for_graph(reader(w0), graph_name)), ret |-> UnitV]
             ELSE [w |-> w0, ret |-> UnitV]

clear_all_named_graphs(w) ==
    [w |-> RemoveEach(w, quads_in_named_graph(reader(w))), ret |-> UnitV]

clear_all_graphs(w) ==
    [w |-> RemoveEach(w, quads(reader(w))), ret |-> UnitV]

\* A bug remove_encoded_named_graph could have: the registry row goes, the
\* quads of the graph stay.
remove_encoded_named_graph_RegistryOnly(w, graph_name) ==
    LET w0 == Probe(w, "graphs", write_term(graph_name))
    IN  IF contains_key(w.view, "graphs", write_term(graph_name))
        THEN [w |-> tx_remove(w0, "graphs", write_term(graph_name)), ret |-> TRUE]
        ELSE [w |-> w0, ret |-> FALSE]

\* A bug remove_encoded_named_graph could have: the result tells whether quads
\* were removed.
remove_encoded_named_graph_TrueIfQuads(w, graph_name) ==
    LET w0 == Probe(w, "graphs", write_term(graph_name))
    IN  IF contains_key(w.view, "graphs", write_term(graph_name))
        THEN LET w1 == RemoveEach(w0, quads_for_graph(reader(w0), graph_name))
             IN  [w |-> tx_remove(w1, "graphs", write_term(graph_name)),
                  ret |-> quads_for_graph(reader(w0), graph_name) # << >>]
        ELSE [w |-> w0, ret |-> FALSE]

remove_encoded_named_graph(w, graph_name) ==
    LET w0 == Probe(w, "graphs", write_term(graph_name))
    IN  IF contains_key(w.view, "graphs", write_term(graph_name))
        THEN LET w1 == RemoveEach(w0, quads_for_graph(reader(w0), graph_name))
             IN  [w |-> tx_remove(w1, "graphs", write_term(graph_name)), ret |-> TRUE]
        ELSE [w |-> w0, ret |-> FALSE]

remove_named_graph(w, graph_name) == remove_encoded_named_graph(w, graph_name)

\* for graph_name in <iterator> { self.remove_encoded_named_graph(&graph_name?)?; }
RECURSIVE RemoveEachGraph(_, _)
RemoveEachGraph(w, graphSeq) ==
    IF graphSeq = << >> THEN w
    ELSE RemoveEachGraph(remove_encoded_named_graph(w, Head(graphSeq)).w, Tail(graphSeq))

remove_all_named_graphs(w) ==
    [w |-> RemoveEachGraph(w, named_graphs(reader(w))), ret |-> UnitV]

\* A bug clear could have: the quads go, the registry stays.
clear_KeepsRegistry(w) ==
    [w |-> RemoveEach(w, quads(reader(w))), ret |-> UnitV]

clear(w) ==
    LET w1 == RemoveEachGraph(w, named_graphs(reader(w)))
    IN  [w |-> RemoveEach(w1, quads(reader(w1))), ret |-> UnitV]

\* ------------------------------------------------------- reference data model
\* The RDF dataset the store stands for (a set of quads), and what each writer
\* operation does to it.
RefApply(D, op, arg) ==
    CASE op = "insert" -> D \cup {arg}
      [] op = "remove" -> D \ {arg}
      [] op = "insert_named_graph" -> D
      [] op = "remove_named_graph" -> {q \in D : q.graph_name # arg}
      [] op = "clear_graph" -> {q \in D : q.graph_name # arg}
      [] op = "clear_all_named_graphs" -> {q \in D : is_default_graph(q.graph_name)}
      [] op = "clear_all_graphs" -> {}
      [] op = "clear" -> {}

\* ----------------------------------------------------------------------- state
VARIABLES
    db,       \* the committed content of the eleven column families
    dataset,  \* the RDF dataset the committed content stands for
    last,     \* the last Store operation that returned: its name and return value
    tx,       \* the open or finished call of Storage::transaction of each client
              \* (ds0: the dataset the call began on)
    history,  \* the committed contents so far, in commit order
    snap,     \* the reader handed out by Storage::snapshot, if any
    it,       \* the iterator a client holds, if any, and what it has yielded
    dataset_view,  \* the DatasetView of the query being evaluated, if any
    load,     \* the load_graph, load_dataset or extend call that is running, if any
    rng       \* _CDK_RNG_REF_CELL, the seeding timer and call, and the bytes drawn

vars == <<db, dataset, last, tx, history, snap, it, dataset_view, load, rng>>

Txns == {"T1", "T2"}

\* The quads and graphs the clients of concurrent transactions work on.
TxQuads == {Quad("s1", "p1", "o1", DefaultGraph), Quad("s1", "p1", "o1", "g1")}
TxGraphs == {"g1"}

\* A client that has not called Storage::transaction yet.
IdleTx ==
    [status |-> "idle", outcome |-> "none", base |-> EmptyDb, w |-> Writer(EmptyDb),
     foreign |-> {}, ops |-> << >>, rets |-> << >>, began |-> 0, retried |-> FALSE,
     ds0 |-> {}]

NoSnapshot == [live |-> FALSE, at |-> 0, committed |-> EmptyDb]

\* No iterator is held.
NoIter == [kind |-> "none", items |-> << >>, status |-> "ok", out |-> << >>,
           reader |-> EmptyDb]

\* No load_graph, load_dataset or extend call is running.
NoLoad ==
    [kind |-> "none", op |-> "none", pending |-> << >>, ret |-> "none", calls |-> 0,
     doc |-> << >>, pre |-> EmptyDb]

\* _CDK_RNG_REF_CELL as the thread-local is initialised: the generator seeded
\* with 32 zero bytes, nothing drawn, no timer set, no call made.
ZeroSeed == 0
NoRng ==
    [seed |-> ZeroSeed, pos |-> 0, timer |-> "none", call |-> "none", reply |-> ZeroSeed,
     out |-> << >>]

\* No query is being evaluated.
NoGraphs == [some |-> FALSE, list |-> << >>]
SomeGraphs(list) == [some |-> TRUE, list |-> list]
NoView == [open |-> FALSE, store |-> EmptyDb, default |-> NoGraphs, named |-> NoGraphs,
           extra |-> {}]

Init ==
    /\ db = EmptyDb
    /\ dataset = {}
    /\ last = [op |-> "new", ret |-> UnitV]
    /\ tx = [t \in Txns |-> IdleTx]
    /\ history = <<EmptyDb>>
    /\ snap = NoSnapshot
    /\ it = NoIter
    /\ dataset_view = NoView
    /\ load = NoLoad
    /\ rng = NoRng

\* The return value of a Store operation as `last` records it.
Returned(ret) == IF ret = TRUE THEN "true" ELSE "false"

\* Storage::transaction with a closure that returns Ok: the writer's view is
\* committed.
Committed(r) == r.w.view

\* -------------------------------------------------------------- Store operations
\* Each is self.transaction(|mut t| t.<operation>(..)): one writer operation,
\* committed when it returns.
StoreInsert(quad) ==
    /\ Cardinality(dataset \cup {quad}) <= MaxQuads
    /\ LET r == insert(Writer(db), quad)
       IN  /\ db' = Committed(r)
           /\ last' = [op |-> "insert", ret |-> Returned(r.ret)]
    /\ dataset' = RefApply(dataset, "insert", quad)
    /\ UNCHANGED <<tx, history, snap, it, dataset_view, load, rng>>

StoreRemove(quad) ==
    /\ LET r == remove(Writer(db), quad)
       IN  /\ db' = Committed(r)
           /\ last' = [op |-> "remove", ret |-> Returned(r.ret)]
    /\ dataset' = RefApply(dataset, "remove", quad)
    /\ UNCHANGED <<tx, history, snap, it, dataset_view, load, rng>>

StoreInsertNamedGraph(graph_name) ==
    /\ LET r == insert_named_graph(Writer(db), graph_name)
       IN  /\ db' = Committed(r)
           /\ last' = [op |-> "insert_named_graph", ret |-> Returned(r.ret)]
    /\ dataset' = RefApply(dataset, "insert_named_graph", graph_name)
    /\ UNCHANGED <<tx, history, snap, it, dataset_view, load, rng>>

StoreClearGraph(graph_name) ==
    /\ LET r == clear_graph(Writer(db), graph_name)
       IN  /\ db' = Committed(r)
           /\ last' = [op |-> "clear_graph", ret |-> r.ret]
    /\ dataset' = RefApply(dataset, "clear_graph", graph_name)
    /\ UNCHANGED <<tx, history, snap, it, dataset_view, load, rng>>

StoreRemoveNamedGraph(graph_name) ==
    /\ LET r == remove_named_graph(Writer(db), graph_name)
       IN  /\ db' = Committed(r)
           /\ last' = [op |-> "remove_named_graph", ret |-> Returned(r.ret)]
    /\ dataset' = RefApply(dataset, "remove_named_graph", graph_name)
    /\ UNCHANGED <<tx, history, snap, it, dataset_view, load, rng>>

StoreClear ==
    /\ LET r == clear(Writer(db))
       IN  /\ db' = Committed(r)
           /\ last' = [op |-> "clear", ret |-> r.ret]
    /\ dataset' = RefApply(dataset, "clear", UnitV)
    /\ UNCHANGED <<tx, history, snap, it, dataset_view, load, rng>>

Next ==
    \/ \E quad \in QuadUniverse : StoreInsert(quad)
    \/ \E quad \in QuadUniverse : StoreRemove(quad)
    \/ \E graph_name \in NamedGraphs : StoreInsertNamedGraph(graph_name)
    \/ \E graph_name \in GraphNames : StoreClearGraph(graph_name)
    \/ \E graph_name \in NamedGraphs : StoreRemoveNamedGraph(graph_name)
    \/ StoreClear

Spec == Init /\ [][Next]_vars

\* ------------------------------------------------------ Store read operations
\* The quads and graphs the reading clients ask for.
ReadQuads == {Quad("s1", "p1", "o1", DefaultGraph), Quad("s1", "p1", "o1", "g1")}

\* Store::contains: a reader on the content committed now looks the quad up.
\* `last` also records the quad asked for and the read the backend served.
StoreContains(quad) ==
    /\ last' = [op |-> "contains",
                ret |-> Returned(contains(db, quad)),
                arg |-> quad,
                read |-> contains_read(quad)]
    /\ UNCHANGED <<db, dataset, tx, history, snap, it, dataset_view, load, rng>>

NextRead ==
    \/ Next
    \/ \E quad \in ReadQuads : StoreContains(quad)

SpecRead == Init /\ [][NextRead]_vars

\* --------------------------------------------------------------- DatasetView
\* A view is [open, store, default, named, extra]: the reader it wraps, the
\* graphs of the default graph and the named graphs available (NoGraphs:
\* unrestricted), and the scratch map as a set of <<hash, string>>.
\* A scan result is [quads, err]: the quads yielded, and whether the scan then
\* yielded an Err item.

\* ReadEncoder::get_encoded_graph_name: the default graph has an encoding of
\* its own, any other graph has one when its string is in the store.
get_encoded_graph_name_Always(store, g) == TRUE
get_encoded_graph_name(store, g) == is_default_graph(g) \/ contains_str(store, StrHash(g))

\* DatasetView::new: the graphs without an encoding are left out of the lists.
DatasetView_new(store, default, named) ==
    LET Known(g) == get_encoded_graph_name(store, g)
    IN  [open |-> TRUE, store |-> store,
         default |-> [default EXCEPT !.list = SelectSeq(@, Known)],
         named |-> [named EXCEPT !.list = SelectSeq(@, Known)],
         extra |-> {}]

\* The scan of the wrapped reader; a failing backend gives an Err item first.
store_encoded_quads_for_pattern(store, subject, predicate, object, graph_name, fails) ==
    IF fails THEN [quads |-> << >>, err |-> TRUE]
    ELSE [quads |-> quads_for_pattern(store, subject, predicate, object, graph_name),
          err |-> FALSE]

\* .map(|quad| EncodedQuad::new(s, p, o, DefaultGraph)): Err items stay.
RewriteToDefault_Keeps(r) == r
RewriteToDefault(r) ==
    [r EXCEPT !.quads = [i \in 1..Len(@) |-> [@[i] EXCEPT !.graph_name = DefaultGraph]]]

\* iters.into_iter().flatten(): the scans one after the other, up to the first
\* Err item.
RECURSIVE Flatten(_)
Flatten(iters) ==
    IF iters = << >> THEN [quads |-> << >>, err |-> FALSE]
    ELSE IF Head(iters).err THEN Head(iters)
    ELSE LET rest == Flatten(Tail(iters))
         IN  [quads |-> Head(iters).quads \o rest.quads, err |-> rest.err]

\* .filter(Err(_) => true, Ok(quad) => quad.graph_name != DefaultGraph)
FilterNamed_DropsErr(r) ==
    [quads |-> SelectSeq(r.quads, LAMBDA q : q.graph_name # DefaultGraph), err |-> FALSE]
FilterNamed(r) ==
    [r EXCEPT !.quads = SelectSeq(@, LAMBDA q : q.graph_name # DefaultGraph)]

PerGraph_AllGraphs(store, subject, predicate, object, graphs, fails) ==
    [i \in 1..Len(graphs) |->
        store_encoded_quads_for_pattern(store, subject, predicate, object, NoneV, fails)]
PerGraph(store, subject, predicate, object, graphs, fails) ==
    [i \in 1..Len(graphs) |->
        store_encoded_quads_for_pattern(store, subject, predicate, object, graphs[i], fails)]

\* self.dataset.named.as_ref().map_or(true, |d| d.contains(&graph_name))
named_contains_Always(view, graph_name) == TRUE
named_contains(view, graph_name) ==
    (~view.named.some) \/ graph_name \in Range(view.named.list)

\* DatasetView::encoded_quads_for_pattern.
encoded_quads_for_pattern(view, subject, predicate, object, graph_name, fails) ==
    IF graph_name # NoneV THEN
        IF is_default_graph(graph_name) THEN
            IF view.default.some THEN
                IF Len(view.default.list) = 1
                THEN RewriteToDefault(store_encoded_quads_for_pattern(
                         view.store, subject, predicate, object, view.default.list[1], fails))
                ELSE RewriteToDefault(Flatten(PerGraph(
                         view.store, subject, predicate, object, view.default.list, fails)))
            ELSE store_encoded_quads_for_pattern(
                     view.store, subject, predicate, object, NoneV, fails)
        ELSE IF named_contains(view, graph_name)
        THEN store_encoded_quads_for_pattern(
                 view.store, subject, predicate, object, graph_name, fails)
        ELSE [quads |-> << >>, err |-> FALSE]
    ELSE IF view.named.some
    THEN Flatten(PerGraph(view.store, subject, predicate, object, view.named.list, fails))
    ELSE FilterNamed(store_encoded_quads_for_pattern(
             view.store, subject, predicate, object, NoneV, fails))

\* DatasetView::get_str: the scratch map first, then the store.
DatasetView_get_str(view, id) ==
    IF \E e \in view.extra : e[1] = id
    THEN (CHOOSE e \in view.extra : e[1] = id)[2]
    ELSE get_str(view.store, id)

\* The store's get_str_id: the hash of a string the store holds.
store_get_str_id(store, value) ==
    IF contains_str(store, StrHash(value)) THEN StrHash(value) ELSE NoneV

\* DatasetView::insert_str: [view, ret]. entry(hash).or_insert_with keeps the
\* entry the map already has.
DatasetView_insert_str_NoEntry(view, value) == [view |-> view, ret |-> StrHash(value)]
DatasetView_insert_str(view, value) ==
    IF contains_str(view.store, StrHash(value))
    THEN [view |-> view, ret |-> store_get_str_id(view.store, value)]
    ELSE [view |-> [view EXCEPT !.extra =
                        IF \E e \in @ : e[1] = StrHash(value)
                        THEN @
                        ELSE @ \cup {<<StrHash(value), value>>}],
          ret |-> StrHash(value)]

\* What the clients of the view store, ask for and intern.
ScanSubjects == {NoneV, "s1"}
ViewQuads ==
    {Quad("s1", "p1", "o1", DefaultGraph), Quad("s1", "p1", "o1", "g1"),
     Quad("s2", "p1", "o1", "g2")}
ViewDefaults ==
    {NoGraphs, SomeGraphs(<<DefaultGraph>>), SomeGraphs(<<"g1">>), SomeGraphs(<<"g2", "g1">>)}
ViewNamed == {NoGraphs, SomeGraphs(<<"g1">>), SomeGraphs(<<"g2", "g1">>)}
ViewStrings == {"o1", "x1"}

NewView(default, named) ==
    /\ dataset_view' = DatasetView_new(db, default, named)
    /\ last' = [op |-> "new_view", ret |-> "unit"]
    /\ UNCHANGED <<db, dataset, tx, history, snap, it, load, rng>>

ViewQuadsForPattern(subject, graph_name, fails) ==
    /\ dataset_view.open
    /\ last' = [op |-> "encoded_quads_for_pattern", subject |-> subject,
                graph_name |-> graph_name, fails |-> fails,
                ret |-> encoded_quads_for_pattern(
                            dataset_view, subject, NoneV, NoneV, graph_name, fails)]
    /\ UNCHANGED <<db, dataset, tx, history, snap, it, dataset_view, load, rng>>

ViewInsertStr(value) ==
    /\ dataset_view.open
    /\ LET r == DatasetView_insert_str(dataset_view, value)
       IN  /\ dataset_view' = r.view
           /\ last' = [op |-> "insert_str", arg |-> value, ret |-> r.ret,
                       before |-> dataset_view.extra]
    /\ UNCHANGED <<db, dataset, tx, history, snap, it, load, rng>>

\* DatasetView::encoded_named_graphs, drained: once(Err(..)).
encoded_named_graphs_OfStore(view) == named_graphs(view.store)
encoded_named_graphs(view) == <<"err">>

\* DatasetView::contains_encoded_named_graph: Err(..), whatever the graph.
contains_encoded_named_graph(view, graph_name) == "err"

ViewNamedGraphs ==
    /\ dataset_view.open
    /\ last' = [op |-> "encoded_named_graphs", ret |-> encoded_named_graphs(dataset_view)]
    /\ UNCHANGED <<db, dataset, tx, history, snap, it, dataset_view, load, rng>>

ViewContainsNamedGraph(graph_name) ==
    /\ dataset_view.open
    /\ last' = [op |-> "contains_encoded_named_graph", arg |-> graph_name,
                ret |-> contains_encoded_named_graph(dataset_view, graph_name)]
    /\ UNCHANGED <<db, dataset, tx, history, snap, it, dataset_view, load, rng>>

NextView ==
    \/ \E quad \in ViewQuads : StoreInsert(quad)
    \/ \E default \in ViewDefaults, named \in ViewNamed : NewView(default, named)
    \/ \E subject \in ScanSubjects, graph_name \in GraphNames \cup {NoneV}, fails \in BOOLEAN :
           ViewQuadsForPattern(subject, graph_name, fails)
    \/ \E value \in ViewStrings : ViewInsertStr(value)
    \/ ViewNamedGraphs
    \/ \E graph_name \in NamedGraphs : ViewContainsNamedGraph(graph_name)

SpecView == Init /\ [][NextView]_vars

\* ------------------------------------------------------------------ iterators
\* An iterator is [kind, items, status, out, reader]: the decoded items its
\* sources still hold (those of the first source before those of the second),
\* the status of the backend iterator being read, the results next() has
\* returned so far, and the reader that resolves the strings.
OkItem(x) == [res |-> "ok", item |-> x]
ErrItem == [res |-> "err", item |-> NoneV]
NoneItem == [res |-> "none", item |-> NoneV]

\* DecodingQuadIterator::next and DecodingGraphIterator::next (reached through
\* ChainedDecodingQuadIterator::next for quads): the status is checked first; an
\* exhausted source gives None; otherwise the key is decoded and the source
\* advances. Yields [item, items]: the result and the items left.
decoding_next(items, status) ==
    IF status = "err" THEN [item |-> ErrItem, items |-> items]
    ELSE IF items = << >> THEN [item |-> NoneItem, items |-> items]
    ELSE [item |-> OkItem(Head(items)), items |-> Tail(items)]

\* StorageReader::decode_quad: the lexical forms of the hashed terms are read
\* from ID2STR; a missing one is a corruption error.
decode_quad(v, quad) ==
    IF \A t \in {quad.subject, quad.predicate, quad.object, quad.graph_name} \cap HashedTerms :
           contains_str(v, StrHash(t))
    THEN OkItem(quad)
    ELSE ErrItem

decode_named_or_blank_node(v, graph_name) ==
    IF contains_str(v, StrHash(graph_name)) THEN OkItem(graph_name) ELSE ErrItem

\* The quads the iterating clients store, and the pattern terms they ask for.
IterQuads ==
    {Quad("s1", "p1", "l1", DefaultGraph), Quad("s2", "p1", "o1", DefaultGraph),
     Quad("s1", "p1", "l1", "g1"), Quad("s2", "p1", "o1", "g1")}
IterGraphs == {NoneV, "g1"}

\* Store::quads_for_pattern: a QuadIter on the content committed now.
StoreQuadsForPattern(subject, graph_name) ==
    /\ it' = [kind |-> "quads",
              items |-> quads_for_pattern(db, subject, NoneV, NoneV, graph_name),
              status |-> "ok", out |-> << >>, reader |-> db]
    /\ UNCHANGED <<db, dataset, last, tx, history, snap, dataset_view, load, rng>>

\* Store::named_graphs: a GraphNameIter on the content committed now.
StoreNamedGraphs ==
    /\ it' = [kind |-> "graphs", items |-> named_graphs(db),
              status |-> "ok", out |-> << >>, reader |-> db]
    /\ UNCHANGED <<db, dataset, last, tx, history, snap, dataset_view, load, rng>>

\* QuadIter::next.
QuadIterNext ==
    /\ it.kind = "quads"
    /\ Len(it.out) < MaxPolls
    /\ LET n == decoding_next(it.items, it.status)
           r == IF n.item.res = "ok" THEN decode_quad(it.reader, n.item.item) ELSE n.item
       IN  it' = [it EXCEPT !.items = n.items, !.out = Append(@, r)]
    /\ UNCHANGED <<db, dataset, last, tx, history, snap, dataset_view, load, rng>>

\* GraphNameIter::next.
GraphNameIterNext ==
    /\ it.kind = "graphs"
    /\ Len(it.out) < MaxPolls
    /\ LET n == decoding_next(it.items, it.status)
           r == IF n.item.res = "ok"
                THEN decode_named_or_blank_node(it.reader, n.item.item)
                ELSE n.item
       IN  it' = [it EXCEPT !.items = n.items, !.out = Append(@, r)]
    /\ UNCHANGED <<db, dataset, last, tx, history, snap, dataset_view, load, rng>>

\* The backend iterator fails (an I/O error): its status check reports the
\* error from now on.
BackendIterFails ==
    /\ it.kind # "none"
    /\ it.status = "ok"
    /\ it' = [it EXCEPT !.status = "err"]
    /\ UNCHANGED <<db, dataset, last, tx, history, snap, dataset_view, load, rng>>

NextIter ==
    \/ \E quad \in IterQuads : StoreInsert(quad)
    \/ \E graph_name \in NamedGraphs : StoreInsertNamedGraph(graph_name)
    \/ \E subject \in ScanSubjects, graph_name \in IterGraphs :
           StoreQuadsForPattern(subject, graph_name)
    \/ StoreNamedGraphs
    \/ QuadIterNext
    \/ GraphNameIterNext
    \/ BackendIterFails

SpecIter == Init /\ [][NextIter]_vars

\* --------------------------------------------- backend: snapshots, transactions
\* Db::snapshot: a reader pinned to the commits made so far.
db_snapshot(h, d) == [live |-> TRUE, at |-> Len(h), committed |-> d]

\* Storage::snapshot.
snapshot(h, d) == db_snapshot(h, d)

\* A bug the backend could have: the reader reads the live content.
reader_view_Live(s, h, d) == d

\* What a pinned reader reads: the content as of the commit it is pinned to.
reader_view(s, h, d) == h[s.at]

\* Commit of a transaction that began on `base` and now sees `view`: its net
\* writes are put on the committed content d, all at once.
ApplyWrites(d, base, view) ==
    [cf \in ColumnFamilies |->
        IF cf = "id2str"
        THEN {e \in d[cf] : \A n \in view[cf] \ base[cf] : n[1] # e[1]}
                 \cup (view[cf] \ base[cf])
        ELSE (d[cf] \ (base[cf] \ view[cf])) \cup (view[cf] \ base[cf])]

\* The writer operations a closure can call, by name.
WriterOp(w, op, arg) ==
    CASE op = "insert" -> insert(w, arg)
      [] op = "remove" -> remove(w, arg)
      [] op = "insert_named_graph" -> insert_named_graph(w, arg)
      [] op = "remove_named_graph" -> remove_named_graph(w, arg)
      [] op = "clear_graph" -> clear_graph(w, arg)
      [] op = "clear" -> clear(w)

RetString(op, ret) == IF op \in {"clear_graph", "clear"} THEN UnitV ELSE Returned(ret)

RECURSIVE Replay(_, _)
Replay(D, ops) ==
    IF ops = << >> THEN D
    ELSE Replay(RefApply(D, Head(ops).op, Head(ops).arg), Tail(ops))

RECURSIVE SumOps(_)
SumOps(T) ==
    IF T = {} THEN 0
    ELSE LET t == CHOOSE x \in T : TRUE IN Len(tx[t].ops) + SumOps(T \ {t})

\* The writer operations of the closures' current or last invocations.
OpsDone == SumOps(Txns)

\* The dataset after the commit of a transaction that began on the dataset D0
\* and performed ops: what the operations added to D0 is added to the committed
\* dataset D, what they removed from D0 is removed from it.
RefCommit(D, D0, ops) ==
    (D \ (D0 \ Replay(D0, ops))) \cup (Replay(D0, ops) \ D0)

\* The conflict sets of the transactions open next to t.
LockedByOthers(t) ==
    UNION {tx[u].w.probes : u \in {x \in Txns \ {t} : tx[x].status = "active"}}

\* The call of Storage::transaction has returned: what is left of it is the
\* outcome and what the closure did and returned in its last invocation.
Finished(call, outcome) ==
    [IdleTx EXCEPT !.outcome = outcome, !.ops = call.ops, !.rets = call.rets,
                   !.retried = call.retried]

\* Storage::transaction is called: the backend opens a transaction on the
\* committed content and hands the closure a StorageWriter on it.
Begin(t) ==
    /\ tx[t].status = "idle" /\ tx[t].outcome = "none"
    /\ tx' = [tx EXCEPT ![t] = [IdleTx EXCEPT !.status = "active", !.base = db,
                                              !.w = Writer(db), !.began = Len(history),
                                              !.ds0 = dataset]]
    /\ UNCHANGED <<db, dataset, last, history, snap, it, dataset_view, load, rng>>

\* The closure calls one writer operation. Its *_for_update probes must find
\* their keys neither in the conflict set of another open transaction (the call
\* waits) nor in that of a transaction committed since this one began (the
\* backend reports the conflict and the closure is run again, see Retry).
TxOp(t, op, arg) ==
    /\ tx[t].status = "active"
    /\ OpsDone < MaxTxOps
    /\ LET r == WriterOp(tx[t].w, op, arg)
       IN  /\ r.w.probes \cap LockedByOthers(t) = {}
           /\ r.w.probes \cap tx[t].foreign = {}
           /\ tx' = [tx EXCEPT ![t].w = r.w,
                               ![t].ops = Append(@, [op |-> op, arg |-> arg]),
                               ![t].rets = Append(@, RetString(op, r.ret))]
    /\ UNCHANGED <<db, dataset, last, history, snap, it, dataset_view, load, rng>>

TxInsert(t, quad) == TxOp(t, "insert", quad)
TxRemove(t, quad) == TxOp(t, "remove", quad)
TxInsertNamedGraph(t, graph_name) == TxOp(t, "insert_named_graph", graph_name)
TxRemoveNamedGraph(t, graph_name) == TxOp(t, "remove_named_graph", graph_name)
TxClearGraph(t, graph_name) == TxOp(t, "clear_graph", graph_name)
TxClear(t) == TxOp(t, "clear", UnitV)

\* The closure returns Ok(v): the writes are committed atomically, and the
\* conflict set is released.
Commit(t) ==
    /\ tx[t].status = "active"
    /\ db' = ApplyWrites(db, tx[t].base, tx[t].w.view)
    /\ history' = Append(history, db')
    /\ dataset' = RefCommit(dataset, tx[t].ds0, tx[t].ops)
    /\ tx' = [u \in Txns |->
                IF u = t
                THEN Finished(tx[t], "ok")
                ELSE IF tx[u].status = "active"
                     THEN [tx[u] EXCEPT !.foreign = @ \cup tx[t].w.probes]
                     ELSE tx[u]]
    /\ UNCHANGED <<last, snap, it, dataset_view, load, rng>>

\* A bug the backend could have: the closure's writes went straight to the
\* database, and an Err return leaves them there.
Rollback_KeepsWrites(t) ==
    /\ tx[t].status = "active"
    /\ db' = ApplyWrites(db, tx[t].base, tx[t].w.view)
    /\ tx' = [tx EXCEPT ![t] = Finished(tx[t], "err")]
    /\ UNCHANGED <<dataset, last, history, snap, it, dataset_view, load, rng>>

\* The closure returns Err(e): every write is discarded.
Rollback(t) ==
    /\ tx[t].status = "active"
    /\ tx' = [tx EXCEPT ![t] = Finished(tx[t], "err")]
    /\ UNCHANGED <<db, dataset, last, history, snap, it, dataset_view, load, rng>>

\* The backend found a conflict with a transaction committed meanwhile: the
\* writes are discarded and the closure is invoked again on the new content.
Retry(t) ==
    /\ tx[t].status = "active"
    /\ tx[t].foreign # {}
    /\ tx' = [tx EXCEPT ![t] = [IdleTx EXCEPT !.status = "active", !.base = db,
                                              !.w = Writer(db), !.began = Len(history),
                                              !.retried = TRUE, !.ds0 = dataset]]
    /\ UNCHANGED <<db, dataset, last, history, snap, it, dataset_view, load, rng>>

\* Storage::snapshot is called.
TakeSnapshot ==
    /\ snap' = snapshot(history, db)
    /\ UNCHANGED <<db, dataset, last, tx, history, it, dataset_view, load, rng>>

NextTx ==
    \/ \E t \in Txns : Begin(t)
    \/ \E t \in Txns, quad \in TxQuads : TxInsert(t, quad)
    \/ \E t \in Txns, quad \in TxQuads : TxRemove(t, quad)
    \/ \E t \in Txns, graph_name \in TxGraphs : TxInsertNamedGraph(t, graph_name)
    \/ \E t \in Txns, graph_name \in TxGraphs : TxRemoveNamedGraph(t, graph_name)
    \/ \E t \in Txns, graph_name \in TxGraphs \cup {DefaultGraph} : TxClearGraph(t, graph_name)
    \/ \E t \in Txns : TxClear(t)
    \/ \E t \in Txns : Commit(t)
    \/ \E t \in Txns : Rollback(t)
    \/ \E t \in Txns : Retry(t)
    \/ TakeSnapshot

SpecTx == Init /\ [][NextTx]_vars

\* ------------------------------------------ insert against graph removal
\* The store is filled, a snapshot is taken of it, and then client T1 inserts
\* into the named graph g1 while client T2 removes that graph.
NoCallYet == \A t \in Txns : tx[t].status = "idle" /\ tx[t].outcome = "none"

RaceQuad == Quad("s1", "p1", "o1", "g1")

NextRace ==
    \/ NoCallYet /\ ~snap.live /\ StoreInsertNamedGraph("g1")
    \/ NoCallYet /\ ~snap.live
          /\ \E quad \in {RaceQuad, Quad("s2", "p1", "o1", "g1")} : StoreInsert(quad)
    \/ NoCallYet /\ ~snap.live /\ TakeSnapshot
    \/ snap.live /\ \E t \in Txns : Begin(t)
    \/ TxInsert("T1", RaceQuad)
    \/ TxRemoveNamedGraph("T2", "g1")
    \/ \E t \in Txns : Commit(t)
    \/ \E t \in Txns : Rollback(t)
    \/ \E t \in Txns : Retry(t)

SpecRace == Init /\ [][NextRace]_vars

\* ------------------------------------------------------------------- loading
\* A document is a sequence of parser items: a quad, or a syntax error.
\* The running call is [kind, op, pending, ret, calls, doc, pre]: called on the
\* Store ("store") or inside a closure of Store::transaction ("tx"); the items
\* not yet inserted; what the load has returned; the calls made so far; the
\* document, and the committed content the call began on.
Parsed(quad) == [ok |-> TRUE, quad |-> quad]
SyntaxError == [ok |-> FALSE, quad |-> Quad(NoneV, NoneV, NoneV, NoneV)]

LoadDocs ==
    {<<Parsed(Quad("s1", "p1", "o1", DefaultGraph)), Parsed(Quad("s2", "p1", "o1", "g1"))>>,
     <<Parsed(Quad("s1", "p1", "o1", DefaultGraph)), SyntaxError>>,
     <<Parsed(Quad("s2", "p1", "o1", "g1")), SyntaxError,
       Parsed(Quad("s1", "p1", "o1", DefaultGraph))>>}

\* triple.in_graph(to_graph_name), item by item.
in_graph(doc, to_graph_name) ==
    [i \in 1..Len(doc) |->
        IF doc[i].ok
        THEN Parsed([doc[i].quad EXCEPT !.graph_name = to_graph_name])
        ELSE doc[i]]

\* .collect::<Result<Vec<_>, _>>()?: the whole document is parsed first, and
\* one syntax error is the result of all of it.
collect_UpToError(doc) ==
    [ok |-> TRUE,
     quads |-> IF \E i \in 1..Len(doc) : ~doc[i].ok
               THEN SubSeq(doc, 1, (CHOOSE i \in 1..Len(doc) :
                                       ~doc[i].ok /\ \A j \in 1..(i - 1) : doc[j].ok) - 1)
               ELSE doc]
collect(doc) ==
    [ok |-> \A i \in 1..Len(doc) : doc[i].ok, quads |-> doc]

\* Store::load_graph, load_dataset and extend: parse, then one transaction
\* whose closure inserts the quads.
StoreLoad(op, doc) ==
    /\ load.kind = "none"
    /\ load.calls < MaxLoads
    /\ IF collect(doc).ok
       THEN /\ load' = [kind |-> "store", op |-> op, pending |-> collect(doc).quads,
                        ret |-> "none", calls |-> load.calls + 1, doc |-> doc, pre |-> db]
            /\ tx' = [tx EXCEPT !["T1"] =
                         [IdleTx EXCEPT !.status = "active", !.base = db, !.w = Writer(db),
                                        !.began = Len(history), !.ds0 = dataset]]
            /\ UNCHANGED last
       ELSE /\ load' = [load EXCEPT !.calls = @ + 1]
            /\ last' = [op |-> op, ret |-> "err", kind |-> "store", load |-> "err",
                        doc |-> doc, pre |-> db]
            /\ UNCHANGED tx
    /\ UNCHANGED <<db, dataset, history, snap, it, dataset_view, rng>>

StoreLoadGraph(doc, to_graph_name) == StoreLoad("load_graph", in_graph(doc, to_graph_name))
StoreLoadDataset(doc) == StoreLoad("load_dataset", doc)
StoreExtend(doc) == StoreLoad("extend", doc)

\* Transaction::load_graph and load_dataset, called by the closure of a
\* Store::transaction: the parser is read while the quads are inserted.
TxLoad_Eager(op, doc) ==
    /\ load.kind = "none"
    /\ load.calls < MaxLoads
    /\ load' = [kind |-> "tx", op |-> op,
                pending |-> IF collect(doc).ok THEN doc ELSE <<SyntaxError>>,
                ret |-> "none", calls |-> load.calls + 1, doc |-> doc, pre |-> db]
    /\ tx' = [tx EXCEPT !["T1"] =
                 [IdleTx EXCEPT !.status = "active", !.base = db, !.w = Writer(db),
                                !.began = Len(history), !.ds0 = dataset]]
    /\ UNCHANGED <<db, dataset, last, history, snap, it, dataset_view, rng>>
TxLoad(op, doc) ==
    /\ load.kind = "none"
    /\ load.calls < MaxLoads
    /\ load' = [kind |-> "tx", op |-> op, pending |-> doc, ret |-> "none",
                calls |-> load.calls + 1, doc |-> doc, pre |-> db]
    /\ tx' = [tx EXCEPT !["T1"] =
                 [IdleTx EXCEPT !.status = "active", !.base = db, !.w = Writer(db),
                                !.began = Len(history), !.ds0 = dataset]]
    /\ UNCHANGED <<db, dataset, last, history, snap, it, dataset_view, rng>>

TxLoadGraph(doc, to_graph_name) == TxLoad("load_graph", in_graph(doc, to_graph_name))
TxLoadDataset(doc) == TxLoad("load_dataset", doc)

\* One turn of the loop `for quad in .. { insert(quad)? }`: a syntax error or a
\* failing insert ends the load with Err, the last item ends it with Ok.
LoadInsert(fails) ==
    /\ load.kind # "none"
    /\ load.ret = "none"
    /\ LET item == Head(load.pending)
       IN  IF (~item.ok) \/ fails
           THEN /\ load' = [load EXCEPT !.ret = "err"]
                /\ UNCHANGED tx
           ELSE /\ load' = [load EXCEPT !.pending = Tail(@),
                                        !.ret = IF Tail(load.pending) = << >>
                                                THEN "ok" ELSE "none"]
                /\ tx' = [tx EXCEPT !["T1"].w = insert(@, item.quad).w,
                                    !["T1"].ops = Append(@, [op |-> "insert",
                                                             arg |-> item.quad])]
    /\ UNCHANGED <<db, dataset, last, history, snap, it, dataset_view, rng>>

\* The closure returns Ok: that of a Store load when its loop is done, that of
\* Store::transaction whenever the load it called has returned, Ok or Err.
LoadCommit ==
    /\ load.kind # "none"
    /\ load.ret = "ok" \/ (load.kind = "tx" /\ load.ret = "err")
    /\ db' = ApplyWrites(db, tx["T1"].base, tx["T1"].w.view)
    /\ history' = Append(history, db')
    /\ dataset' = RefCommit(dataset, tx["T1"].ds0, tx["T1"].ops)
    /\ tx' = [tx EXCEPT !["T1"] = Finished(tx["T1"], "ok")]
    /\ last' = [op |-> load.op, ret |-> "ok", kind |-> load.kind, load |-> load.ret,
                doc |-> load.doc, pre |-> load.pre]
    /\ load' = [NoLoad EXCEPT !.calls = load.calls]
    /\ UNCHANGED <<snap, it, dataset_view, rng>>

\* The closure returns Err: that of a Store load when an insert failed, that of
\* Store::transaction whenever the load it called has returned.
LoadRollback ==
    /\ load.kind # "none"
    /\ load.ret = "err" \/ (load.kind = "tx" /\ load.ret = "ok")
    /\ tx' = [tx EXCEPT !["T1"] = Finished(tx["T1"], "err")]
    /\ last' = [op |-> load.op, ret |-> "err", kind |-> load.kind, load |-> load.ret,
                doc |-> load.doc, pre |-> load.pre]
    /\ load' = [NoLoad EXCEPT !.calls = load.calls]
    /\ UNCHANGED <<db, dataset, history, snap, it, dataset_view, rng>>

NextLoad ==
    \/ \E doc \in LoadDocs : StoreLoadGraph(doc, "g2")
    \/ \E doc \in LoadDocs : StoreLoadDataset(doc)
    \/ \E doc \in {d \in LoadDocs : collect(d).ok} : StoreExtend(doc)
    \/ \E doc \in LoadDocs : TxLoadGraph(doc, "g2")
    \/ \E doc \in LoadDocs : TxLoadDataset(doc)
    \/ \E fails \in BOOLEAN : LoadInsert(fails)
    \/ LoadCommit
    \/ LoadRollback
    \/ TakeSnapshot

SpecLoad == Init /\ [][NextLoad]_vars



\* --------------------------------------------------------------- RNG seeding
\* The 32-byte values raw_rand may return, and the buffer lengths requested.
SeedBytes == {1, 2}
BufLens == {1, 2}

\* StdRng: a generator is its seed and the number of bytes drawn from it; the
\* byte at a position is a function of the two.
StdRng_from_seed(seed) == [seed |-> seed, pos |-> 0]
StdRng_byte(seed, pos) == (seed * 16 + pos * 5 + 3) % 256
StdRng_fill(g, n) ==
    [g |-> [g EXCEPT !.pos = @ + n],
     buf |-> [i \in 1..n |-> StdRng_byte(g.seed, g.pos + i - 1)]]

\* custom_getrandom: fills the buffer from the generator of the cell, Ok(()).
custom_getrandom(g, n) ==
    LET r == StdRng_fill(g, n) IN [g |-> r.g, buf |-> r.buf, ret |-> "ok"]

\* The body of rng_seed's future after the await: Ok replaces the generator,
\* Err panics.
rng_seed_reply_KeepsGenerator(g, result) == [g |-> g, panic |-> FALSE]
rng_seed_reply(g, result) ==
    IF result.ok THEN [g |-> StdRng_from_seed(result.bytes), panic |-> FALSE]
    ELSE [g |-> g, panic |-> TRUE]

\* init(): set_timer(Duration::new(0, 0), rng_seed).
RngInit ==
    /\ rng.timer = "none"
    /\ rng' = [rng EXCEPT !.timer = "scheduled"]
    /\ UNCHANGED <<db, dataset, last, tx, history, snap, it, dataset_view, load>>

\* The timer fires: rng_seed spawns the future, which calls raw_rand and waits.
TimerFires ==
    /\ rng.timer = "scheduled"
    /\ rng' = [rng EXCEPT !.timer = "fired", !.call = "pending"]
    /\ UNCHANGED <<db, dataset, last, tx, history, snap, it, dataset_view, load>>

\* The reply of raw_rand arrives and the future resumes.
RawRandReply(bytes) ==
    /\ rng.call = "pending"
    /\ LET r == rng_seed_reply([seed |-> rng.seed, pos |-> rng.pos],
                               [ok |-> TRUE, bytes |-> bytes])
       IN  rng' = [rng EXCEPT !.seed = r.g.seed, !.pos = r.g.pos, !.reply = bytes,
                              !.call = IF r.panic THEN "panicked" ELSE "replied"]
    /\ UNCHANGED <<db, dataset, last, tx, history, snap, it, dataset_view, load>>

\* The call is rejected and the future resumes with Err.
RawRandReject ==
    /\ rng.call = "pending"
    /\ LET r == rng_seed_reply([seed |-> rng.seed, pos |-> rng.pos],
                               [ok |-> FALSE, bytes |-> ZeroSeed])
       IN  rng' = [rng EXCEPT !.seed = r.g.seed, !.pos = r.g.pos,
                              !.call = IF r.panic THEN "panicked" ELSE "replied"]
    /\ UNCHANGED <<db, dataset, last, tx, history, snap, it, dataset_view, load>>

\* A getrandom request of the library or of the canister, at any time.
CustomGetrandom(n) ==
    /\ Len(rng.out) < MaxDraws
    /\ LET r == custom_getrandom([seed |-> rng.seed, pos |-> rng.pos], n)
       IN  rng' = [rng EXCEPT !.seed = r.g.seed, !.pos = r.g.pos,
                              !.out = Append(@, [ret |-> r.ret, buf |-> r.buf,
                                                 call |-> rng.call])]
    /\ UNCHANGED <<db, dataset, last, tx, history, snap, it, dataset_view, load>>

NextRng ==
    \/ RngInit
    \/ TimerFires
    \/ \E bytes \in SeedBytes : RawRandReply(bytes)
    \/ RawRandReject
    \/ \E n \in BufLens : CustomGetrandom(n)

SpecRng == Init /\ [][NextRng]_vars

\* ====================================================================== claims
Keys(writeKey(_), quadSet) == {writeKey(q) : q \in quadSet}

NamedQuads(D) == {q \in D : ~is_default_graph(q.graph_name)}
DefaultQuads(D) == {q \in D : is_default_graph(q.graph_name)}

PatternTerms(S) == S \cup {NoneV}

\* A quad matches a pattern when every bound position equals its component.
Matches(q, s, p, o, g) ==
    /\ s = NoneV \/ q.subject = s
    /\ p = NoneV \/ q.predicate = p
    /\ o = NoneV \/ q.object = o
    /\ g = NoneV \/ q.graph_name = g

\* C1. Insert idempotence: in every reachable store state and for every quad q,
\* insert(q) returns true exactly when q is not in the store, a second insert(q)
\* right after it returns false, and contains(q) is true after either call.
C1_InsertIdempotence ==
    \A q \in QuadUniverse :
        LET r1 == insert(Writer(db), q)
            r2 == insert(Writer(Committed(r1)), q)
        IN  /\ r1.ret = (q \notin dataset)
            /\ r2.ret = FALSE
            /\ contains(Committed(r1), q)
            /\ contains(Committed(r2), q)

\* An insert has just returned true, and the store holds a default-graph quad
\* and a named-graph quad which a further insert reports as present.
C1_Witness ==
    /\ last = [op |-> "insert", ret |-> "true"]
    /\ \E q1 \in DefaultQuads(dataset), q2 \in NamedQuads(dataset) :
           /\ ~insert(Writer(db), q1).ret
           /\ ~insert(Writer(db), q2).ret
           /\ contains(db, q1) /\ contains(db, q2)

\* C2. Remove duality: in every reachable store state and for every quad q (of
\* the default graph or of a named graph), remove(q) returns true exactly when q
\* is in the store; after insert(q) then remove(q), contains(q) is false and a
\* further remove(q) returns false.
C2_RemoveDuality ==
    \A q \in QuadUniverse :
        LET r0 == remove(Writer(db), q)
            i1 == insert(Writer(db), q)
            r1 == remove(Writer(Committed(i1)), q)
            r2 == remove(Writer(Committed(r1)), q)
        IN  /\ r0.ret = (q \in dataset)
            /\ r1.ret = TRUE
            /\ ~contains(Committed(r1), q)
            /\ r2.ret = FALSE

\* A remove has just returned true and left a registered graph without quads
\* (so the quad removed was a named-graph quad), other quads remaining.
C2_Witness ==
    /\ last = [op |-> "remove", ret |-> "true"]
    /\ dataset # {}
    /\ \E g \in NamedGraphs :
           /\ contains_named_graph(db, g)
           /\ \A q \in dataset : q.graph_name # g

\* C3. Pattern soundness and completeness: in every reachable state, for each
\* of the 16 bound/unbound combinations and every choice of the bound terms,
\* the quads quads_for_pattern yields are exactly the stored quads that match.
C3_PatternExact ==
    \A s \in PatternTerms(Subjects), p \in PatternTerms(Predicates),
       o \in PatternTerms(Objects), g \in PatternTerms(GraphNames) :
        Range(quads_for_pattern(db, s, p, o, g)) = {q \in dataset : Matches(q, s, p, o, g)}

\* The store holds a default-graph quad and a named-graph quad with the same
\* subject and object and different predicates; the pattern binding that
\* subject and object yields both, while the pattern that also binds the graph
\* yields one of them.
C3_Witness ==
    \E q1 \in DefaultQuads(dataset), q2 \in NamedQuads(dataset) :
        /\ q1.subject = q2.subject /\ q1.object = q2.object
        /\ q1.predicate # q2.predicate
        /\ Range(quads_for_pattern(db, q1.subject, NoneV, q1.object, NoneV)) = {q1, q2}
        /\ Range(quads_for_pattern(db, q1.subject, NoneV, q1.object, q2.graph_name)) = {q2}

\* C4. Transaction commit and rollback: when the closure returns Ok(v), the call
\* returns v and every key the closure wrote is in the committed content and
\* every key it removed is out of it, in one step (the committed content is the
\* writer's view when nothing else committed meanwhile); when the closure
\* returns Err after any writer operations, the committed content of all eleven
\* column families is what it was (the content the call began on, when nothing
\* else committed meanwhile).
C4_CommitOrRollback ==
    [][\A t \in Txns :
         (tx[t].status = "active" /\ tx'[t].status = "idle") =>
            IF tx'[t].outcome = "ok"
            THEN /\ tx'[t].rets = tx[t].rets
                 /\ \A cf \in ColumnFamilies :
                        /\ (tx[t].w.view[cf] \ tx[t].base[cf]) \subseteq db'[cf]
                        /\ cf # "id2str" =>
                               (tx[t].base[cf] \ tx[t].w.view[cf]) \cap db'[cf] = {}
                 /\ Len(history) = tx[t].began => db' = tx[t].w.view
                 /\ history' = Append(history, db')
            ELSE /\ tx'[t].outcome = "err"
                 /\ db' = db
                 /\ history' = history
                 /\ Len(history) = tx[t].began => db' = tx[t].base
      ]_vars

\* One call has returned Err after an insert that reported a new quad, another
\* has returned Ok after such an insert, and the committed content holds the
\* quad of the second alone.
C4_Witness ==
    \E t, u \in Txns :
        /\ tx[t].outcome = "err" /\ tx[t].rets = <<"true">> /\ tx[t].ops[1].op = "insert"
        /\ tx[u].outcome = "ok" /\ tx[u].rets = <<"true">> /\ tx[u].ops[1].op = "insert"
        /\ tx[t].ops[1].arg # tx[u].ops[1].arg
        /\ contains(db, tx[u].ops[1].arg)
        /\ ~contains(db, tx[t].ops[1].arg)
        /\ len(db) = 1

\* C5. Snapshot isolation: as long as it lives, a reader obtained by snapshot()
\* reads exactly the content committed when it was taken, which is the content
\* after a whole number of commits; so do the scans built on it.
C5_SnapshotIsolation ==
    snap.live =>
        /\ reader_view(snap, history, db) = snap.committed
        /\ \E n \in 1..Len(history) : reader_view(snap, history, db) = history[n]
        /\ quads(reader_view(snap, history, db)) = quads(snap.committed)
        /\ named_graphs(reader_view(snap, history, db)) = named_graphs(snap.committed)

\* A reader taken after one commit and still alive after a second commit that
\* changed the quads: it reads the content between the two.
C5_Witness ==
    /\ snap.live
    /\ snap.at = 2
    /\ Len(history) = 3
    /\ quads(db) # quads(snap.committed)
    /\ quads(reader_view(snap, history, db)) # << >>

\* C6. Concurrent duplicate insert: when the closures of two transactions each
\* insert the same quad, absent from the store, and both calls have returned
\* Ok, exactly one of the two inserts has returned true, len() is 1 and each
\* index the quad belongs to holds exactly the quad's key.
C6_ConcurrentDuplicateInsert ==
    \A q \in TxQuads :
        (\A t \in Txns : /\ tx[t].outcome = "ok"
                         /\ tx[t].ops = <<[op |-> "insert", arg |-> q]>>)
        => /\ Cardinality({t \in Txns : tx[t].rets = <<"true">>}) = 1
           /\ Cardinality({t \in Txns : tx[t].rets = <<"false">>}) = 1
           /\ len(db) = 1
           /\ IF is_default_graph(q.graph_name)
              THEN /\ db["dspo"] = {write_spo_quad(q)}
                   /\ db["dpos"] = {write_pos_quad(q)}
                   /\ db["dosp"] = {write_osp_quad(q)}
              ELSE /\ db["spog"] = {write_spog_quad(q)}
                   /\ db["posg"] = {write_posg_quad(q)}
                   /\ db["ospg"] = {write_ospg_quad(q)}
                   /\ db["gspo"] = {write_gspo_quad(q)}
                   /\ db["gpos"] = {write_gpos_quad(q)}
                   /\ db["gosp"] = {write_gosp_quad(q)}

\* Both calls have returned Ok after inserting the same default-graph quad, and
\* the closure of one was run again because the two were open together.
C6_Witness ==
    \E q \in TxQuads :
        /\ is_default_graph(q.graph_name)
        /\ \A t \in Txns : /\ tx[t].outcome = "ok"
                           /\ tx[t].ops = <<[op |-> "insert", arg |-> q]>>
        /\ \E t \in Txns : tx[t].retried
        /\ len(db) = 1


\* C7. Named-graph index invariant: after every committed transaction, each of
\* SPOG, POSG, OSPG, GSPO, GPOS and GOSP holds exactly the keys of the stored
\* named-graph quads (one key per quad, no other key), and the graph of every
\* such quad is in GRAPHS.
C7_NamedIndexInvariant ==
    LET N == NamedQuads(dataset)
    IN  /\ db["spog"] = Keys(write_spog_quad, N)
        /\ db["posg"] = Keys(write_posg_quad, N)
        /\ db["ospg"] = Keys(write_ospg_quad, N)
        /\ db["gspo"] = Keys(write_gspo_quad, N)
        /\ db["gpos"] = Keys(write_gpos_quad, N)
        /\ db["gosp"] = Keys(write_gosp_quad, N)
        /\ \A q \in N : contains_named_graph(db, q.graph_name)

\* remove_named_graph has just removed a graph, and a quad of another named
\* graph is still stored, with its key in each of the six indices.
C7_Witness ==
    /\ last = [op |-> "remove_named_graph", ret |-> "true"]
    /\ \E q \in NamedQuads(dataset) :
           /\ write_spog_quad(q) \in db["spog"]
           /\ write_gosp_quad(q) \in db["gosp"]
           /\ contains_named_graph(db, q.graph_name)

\* C8. Default-graph index invariant: after every committed transaction, each of
\* DSPO, DPOS and DOSP holds exactly the keys of the stored default-graph quads,
\* and no key of a G-index carries the default-graph marker as its graph.
C8_DefaultIndexInvariant ==
    LET D == DefaultQuads(dataset)
    IN  /\ db["dspo"] = Keys(write_spo_quad, D)
        /\ db["dpos"] = Keys(write_pos_quad, D)
        /\ db["dosp"] = Keys(write_osp_quad, D)
        /\ \A k \in db["spog"] \cup db["posg"] \cup db["ospg"] : ~is_default_graph(k[4])
        /\ \A k \in db["gspo"] \cup db["gpos"] \cup db["gosp"] : ~is_default_graph(k[1])

\* A remove has just taken the last named-graph quad away, and a default-graph
\* quad is still stored with its three keys.
C8_Witness ==
    /\ last = [op |-> "remove", ret |-> "true"]
    /\ NamedQuads(dataset) = {}
    /\ db["graphs"] # {}
    /\ \E q \in DefaultQuads(dataset) :
           /\ write_spo_quad(q) \in db["dspo"]
           /\ write_pos_quad(q) \in db["dpos"]
           /\ write_osp_quad(q) \in db["dosp"]

\* C9. In every reachable state len() equals the number of stored quads, and it
\* is the number of DSPO keys plus the number of GSPO keys.
C9_LenIsCardinality ==
    /\ len(db) = Cardinality(dataset)
    /\ len(db) = Cardinality(db["dspo"]) + Cardinality(db["gspo"])

\* The store holds as many quads as the bound allows, of the default graph and
\* of a named graph, and len() reports that number.
C9_Witness ==
    /\ len(db) = MaxQuads
    /\ DefaultQuads(dataset) # {}
    /\ NamedQuads(dataset) # {}

\* C10. is_empty() is true exactly when DSPO and GSPO are both empty, that is
\* exactly when len() is 0 and the store holds no quad, whatever GRAPHS holds.
C10_IsEmptyIffNoQuads ==
    /\ is_empty(db) = (db["dspo"] = {} /\ db["gspo"] = {})
    /\ is_empty(db) = (len(db) = 0)
    /\ is_empty(db) = (dataset = {})

\* clear_graph has emptied a store that still registers a named graph: the
\* store is empty.
C10_Witness ==
    /\ last.op = "clear_graph"
    /\ db["graphs"] # {}
    /\ is_empty(db)

\* C11. contains(quad) reads DSPO with the quad's SPO key when the quad's graph
\* is the default graph and GSPO with its GSPO key otherwise, and returns true
\* exactly when that key is present in that index.
C11_ContainsAnchor ==
    last.op = "contains" =>
        /\ last.read = IF is_default_graph(last.arg.graph_name)
                       THEN [cf |-> "dspo", key |-> write_spo_quad(last.arg)]
                       ELSE [cf |-> "gspo", key |-> write_gspo_quad(last.arg)]
        /\ last.ret = Returned(last.read.key \in db[last.read.cf])
        /\ last.ret = Returned(last.arg \in dataset)

\* contains has returned true for a stored named-graph quad.
C11_Witness ==
    /\ last.op = "contains"
    /\ ~is_default_graph(last.arg.graph_name)
    /\ last.ret = "true"
    /\ last.arg \in dataset

\* C11 as stated: contains(quad) reads DSPO when the quad's graph is the default
\* graph and SPOG otherwise, and returns true exactly when the quad's key is
\* present in that index.
C11_ContainsProbesSpog ==
    last.op = "contains" =>
        /\ last.read = IF is_default_graph(last.arg.graph_name)
                       THEN [cf |-> "dspo", key |-> write_spo_quad(last.arg)]
                       ELSE [cf |-> "spog", key |-> write_spog_quad(last.arg)]
        /\ last.ret = Returned(last.read.key \in db[last.read.cf])

\* C12. No duplicates: in every reachable state and for every pattern,
\* quads_for_pattern yields every matching stored quad exactly once and nothing
\* else, also when g is unbound and the default-graph scan is followed by the
\* named-graph scan.
C12_NoDuplicates ==
    \A s \in PatternTerms(Subjects), p \in PatternTerms(Predicates),
       o \in PatternTerms(Objects), g \in PatternTerms(GraphNames) :
        LET r == quads_for_pattern(db, s, p, o, g)
        IN  /\ \A i, j \in 1..Len(r) : r[i] = r[j] => i = j
            /\ \A q \in dataset :
                   Matches(q, s, p, o, g) => Cardinality({i \in 1..Len(r) : r[i] = q}) = 1

\* The same triple is stored in the default graph and in a named graph; the
\* scan with the graph unbound yields two quads, the default-graph one first.
C12_Witness ==
    \E q1 \in DefaultQuads(dataset), q2 \in NamedQuads(dataset) :
        /\ q1.subject = q2.subject /\ q1.predicate = q2.predicate /\ q1.object = q2.object
        /\ quads_for_pattern(db, q1.subject, q1.predicate, q1.object, NoneV) = <<q1, q2>>
        /\ quads_for_pattern(db, NoneV, NoneV, NoneV, NoneV) = <<q1, q2>>

\* The graph term of a key of a quad index.
KeyGraph(cf, k) ==
    IF cf \in {"spog", "posg", "ospg"} THEN k[4]
    ELSE IF cf \in {"gspo", "gpos", "gosp"} THEN k[1]
    ELSE DefaultGraph

QuadIndices == {"spog", "posg", "ospg", "gspo", "gpos", "gosp", "dspo", "dpos", "dosp"}

\* C13. Graph cascade: in every reachable state and for every named graph g,
\* after remove_named_graph(g) no key of a G-index carries g,
\* contains_named_graph(g) is false and no quad is stored in g, while the keys of
\* every other graph and of the default graph, and the other registry rows, are
\* what they were.
C13_GraphCascade ==
    \A g \in NamedGraphs :
        LET v == Committed(remove_named_graph(Writer(db), g))
        IN  /\ \A cf \in QuadIndices : v[cf] = {k \in db[cf] : KeyGraph(cf, k) # g}
            /\ ~contains_named_graph(v, g)
            /\ quads_for_graph(v, g) = << >>
            /\ \A h \in GraphNames \ {g} :
                   /\ quads_for_graph(v, h) = quads_for_graph(db, h)
                   /\ h # DefaultGraph =>
                          contains_named_graph(v, h) = contains_named_graph(db, h)
            /\ Range(quads(v)) = {q \in dataset : q.graph_name # g}

\* remove_named_graph has removed a graph that was registered together with its
\* terms, and a default-graph quad and another registered graph are still there.
C13_Witness ==
    /\ last = [op |-> "remove_named_graph", ret |-> "true"]
    /\ DefaultQuads(dataset) # {}
    /\ \E g, h \in NamedGraphs :
           /\ ~contains_named_graph(db, g)
           /\ contains_str(db, StrHash(g))
           /\ contains_named_graph(db, h)

\* C14. In every reachable state and for every named graph g,
\* remove_named_graph(g) returns true exactly when g is in the graph registry,
\* whether or not it holds quads, and when g is not registered it returns false
\* and leaves every column family as it was.
C14_RemoveNamedGraphResult ==
    \A g \in NamedGraphs :
        LET r == remove_named_graph(Writer(db), g)
        IN  /\ r.ret = (write_term(g) \in db["graphs"])
            /\ r.ret = (g \in Range(named_graphs(db)))
            /\ ~r.ret => Committed(r) = db

\* remove_named_graph has returned true for a graph that never held a quad (no
\* term other than graph names was ever stored), and a second call for it
\* returns false.
C14_Witness ==
    /\ last = [op |-> "remove_named_graph", ret |-> "true"]
    /\ \A e \in db["id2str"] : e[2] \in NamedGraphs
    /\ \E g \in NamedGraphs :
           /\ contains_str(db, StrHash(g))
           /\ ~contains_named_graph(db, g)
           /\ ~remove_named_graph(Writer(db), g).ret

\* C15. In every reachable state, clear_graph(g) for a named graph g removes
\* every quad of g and leaves the registry as it was (a registered g is still
\* listed by named_graphs()); clear_graph(default) removes every default-graph
\* triple and changes neither the registry nor a named-graph quad. The keys of
\* the other graphs stay.
C15_ClearGraphFrame ==
    \A g \in GraphNames :
        LET v == Committed(clear_graph(Writer(db), g))
        IN  /\ v["graphs"] = db["graphs"]
            /\ named_graphs(v) = named_graphs(db)
            /\ quads_for_graph(v, g) = << >>
            /\ \A cf \in QuadIndices : v[cf] = {k \in db[cf] : KeyGraph(cf, k) # g}
            /\ Range(quads(v)) = {q \in dataset : q.graph_name # g}
            /\ (~is_default_graph(g) /\ contains_named_graph(db, g)) =>
                   /\ contains_named_graph(v, g)
                   /\ g \in Range(named_graphs(v))

\* clear_graph has emptied a named graph that held a quad (a subject of no
\* stored quad is still in the string table): the graph is still registered, and
\* a default-graph quad is still stored.
C15_Witness ==
    /\ last.op = "clear_graph"
    /\ NamedQuads(dataset) = {}
    /\ DefaultQuads(dataset) # {}
    /\ named_graphs(db) # << >>
    /\ \E t \in Subjects :
           /\ contains_str(db, StrHash(t))
           /\ \A q \in dataset : q.subject # t

\* C16. In every reachable state and for every quad q of a named graph g, when
\* insert(q) returns true then afterwards contains_named_graph(g) is true,
\* named_graphs() lists g exactly once (and the graphs it listed before), and the
\* scans of the default graph yield what they yielded before, q not among it.
C16_InsertRegistersGraph ==
    \A q \in QuadUniverse :
        ~is_default_graph(q.graph_name) =>
            LET r == insert(Writer(db), q)
                v == Committed(r)
                gs == named_graphs(v)
            IN  r.ret =>
                  /\ contains_named_graph(v, q.graph_name)
                  /\ Cardinality({i \in 1..Len(gs) : gs[i] = q.graph_name}) = 1
                  /\ Range(gs) = Range(named_graphs(db)) \cup {q.graph_name}
                  /\ q \in Range(quads_for_graph(v, q.graph_name))
                  /\ q \notin Range(quads_for_pattern(v, NoneV, NoneV, NoneV, DefaultGraph))
                  /\ quads_for_pattern(v, q.subject, q.predicate, q.object, DefaultGraph)
                         = quads_for_pattern(db, q.subject, q.predicate, q.object, DefaultGraph)
                  /\ quads_for_graph(v, DefaultGraph) = quads_for_graph(db, DefaultGraph)

\* An insert has returned true, the store holds one quad, of a named graph, and
\* that graph is the one registered graph; the default-graph scan is empty.
C16_Witness ==
    /\ last = [op |-> "insert", ret |-> "true"]
    /\ \E q \in NamedQuads(dataset) :
           /\ dataset = {q}
           /\ named_graphs(db) = <<q.graph_name>>
           /\ contains_named_graph(db, q.graph_name)
           /\ quads_for_pattern(db, NoneV, NoneV, NoneV, DefaultGraph) = << >>

\* C17. In every reachable state and for every named graph g,
\* insert_named_graph(g) returns true exactly when g is not in the registry;
\* afterwards g is registered, the other registry rows are what they were, and
\* len() and each of the nine quad indices are unchanged.
C17_InsertNamedGraph ==
    \A g \in NamedGraphs :
        LET r == insert_named_graph(Writer(db), g)
            v == Committed(r)
        IN  /\ r.ret = ~contains_named_graph(db, g)
            /\ contains_named_graph(v, g)
            /\ v["graphs"] = db["graphs"] \cup {write_term(g)}
            /\ len(v) = len(db)
            /\ \A cf \in QuadIndices : v[cf] = db[cf]
            /\ quads(v) = quads(db)

\* insert_named_graph has returned true and the registry holds a graph while the
\* store holds no quad of it.
C17_Witness ==
    /\ last = [op |-> "insert_named_graph", ret |-> "true"]
    /\ \E g \in NamedGraphs :
           /\ contains_named_graph(db, g)
           /\ quads_for_graph(db, g) = << >>
           /\ ~insert_named_graph(Writer(db), g).ret
    /\ len(db) = Cardinality(dataset)

\* C18. In every reachable state, after clear() len() is 0, is_empty() is true,
\* each of the nine quad indices is empty and GRAPHS is empty, so no quad and no
\* named graph is listed.
C18_ClearEmptiesAll ==
    LET v == Committed(clear(Writer(db)))
    IN  /\ len(v) = 0
        /\ is_empty(v)
        /\ \A cf \in QuadIndices : v[cf] = {}
        /\ v["graphs"] = {}
        /\ quads(v) = << >>
        /\ named_graphs(v) = << >>

\* clear has run on a store that had held a quad and a registered graph (their
\* terms are still in the string table), and nothing is left.
C18_Witness ==
    /\ last.op = "clear"
    /\ db["graphs"] = {}
    /\ is_empty(db)
    /\ \E t \in Subjects : contains_str(db, StrHash(t))
    /\ \E g \in NamedGraphs : contains_str(db, StrHash(g))

\* The rows of GRAPHS before a writer operation that are gone after it.
RowsRemoved(r) == db["graphs"] \ Committed(r)["graphs"]

\* C19. A row of GRAPHS is removed only through remove_encoded_named_graph, that
\* is by remove_named_graph, remove_all_named_graphs and clear: in every
\* reachable state insert, insert_named_graph, remove (also of the last quad of
\* a graph), clear_graph, clear_all_named_graphs and clear_all_graphs leave each
\* existing row in place, and remove_named_graph(g) removes no row but that of g.
C19_RegistryRowsStay ==
    /\ \A q \in QuadUniverse :
           /\ RowsRemoved(insert(Writer(db), q)) = {}
           /\ RowsRemoved(remove(Writer(db), q)) = {}
    /\ \A g \in NamedGraphs :
           /\ RowsRemoved(insert_named_graph(Writer(db), g)) = {}
           /\ RowsRemoved(remove_named_graph(Writer(db), g)) \subseteq {write_term(g)}
    /\ \A g \in GraphNames : RowsRemoved(clear_graph(Writer(db), g)) = {}
    /\ RowsRemoved(clear_all_named_graphs(Writer(db))) = {}
    /\ RowsRemoved(clear_all_graphs(Writer(db))) = {}

\* A remove has returned true and left the store without quads, and a named
\* graph is still registered after it.
C19_Witness ==
    /\ last = [op |-> "remove", ret |-> "true"]
    /\ dataset = {}
    /\ db["gspo"] = {}
    /\ named_graphs(db) # << >>

\* C19 as stated: a row of GRAPHS is removed only by remove_named_graph; every
\* other writer operation leaves each existing row in place.
C19_OnlyRemoveNamedGraph ==
    /\ C19_RegistryRowsStay
    /\ RowsRemoved(remove_all_named_graphs(Writer(db))) = {}
    /\ RowsRemoved(clear(Writer(db))) = {}

\* C20. Writes inside a transaction observe their own effect: while a
\* transaction is open, the reader obtained from its writer's reader() reports
\* the quad of the last insert as contained, the quad of the last remove as not
\* contained and the graph of the last insert_named_graph as registered, and
\* its len(), contains and scans are those of the dataset the transaction began
\* on with all its operations so far applied in order.
C20_ReadYourWrites ==
    \A t \in Txns :
        (tx[t].status = "active" /\ tx[t].ops # << >>) =>
            LET rd == reader(tx[t].w)
                D == Replay(tx[t].ds0, tx[t].ops)
                lastOp == tx[t].ops[Len(tx[t].ops)]
            IN  /\ lastOp.op = "insert" => contains(rd, lastOp.arg)
                /\ lastOp.op = "remove" => ~contains(rd, lastOp.arg)
                /\ lastOp.op = "insert_named_graph" =>
                       /\ contains_named_graph(rd, lastOp.arg)
                       /\ lastOp.arg \in Range(named_graphs(rd))
                /\ len(rd) = Cardinality(D)
                /\ is_empty(rd) = (D = {})
                /\ \A q \in TxQuads : contains(rd, q) = (q \in D)
                /\ Range(quads(rd)) = D
                /\ \A g \in GraphNames :
                       Range(quads_for_pattern(rd, NoneV, NoneV, NoneV, g))
                           = {q \in D : q.graph_name = g}
                /\ \A q \in TxQuads :
                       Range(quads_for_pattern(rd, q.subject, q.predicate, q.object, NoneV))
                           = {x \in D : /\ x.subject = q.subject
                                        /\ x.predicate = q.predicate
                                        /\ x.object = q.object}

\* An open transaction has inserted a quad and registered a graph; its reader
\* reports both while the committed content holds neither.
C20_Witness ==
    \E t \in Txns :
        /\ tx[t].status = "active"
        /\ Len(tx[t].ops) = 2
        /\ tx[t].ops[1].op = "insert" /\ tx[t].rets[1] = "true"
        /\ tx[t].ops[2].op = "insert_named_graph" /\ tx[t].rets[2] = "true"
        /\ contains(reader(tx[t].w), tx[t].ops[1].arg)
        /\ contains_named_graph(reader(tx[t].w), tx[t].ops[2].arg)
        /\ len(reader(tx[t].w)) = 1
        /\ ~contains(db, tx[t].ops[1].arg)
        /\ ~contains_named_graph(db, tx[t].ops[2].arg)
        /\ len(db) = 0

\* The terms of a quad whose encoding carries a hash.
QuadHashedTerms(q) ==
    {q.subject, q.predicate, q.object, q.graph_name} \cap HashedTerms

\* C21. Side-table completeness: in every committed state, for every term of
\* every stored quad and for every registered graph name whose encoding carries
\* a hash, ID2STR binds the term's hash to its lexical form.
C21_SideTableComplete ==
    /\ \A q \in Range(quads(db)) :
           \A t \in QuadHashedTerms(q) :
               /\ contains_str(db, StrHash(t))
               /\ get_str(db, StrHash(t)) = t
    /\ \A g \in Range(named_graphs(db)) :
           g \in HashedTerms => get_str(db, StrHash(g)) = g
    /\ Range(quads(db)) = dataset

\* A quad with an inline literal and a quad of a named graph with a hashed
\* object are stored: the hashed terms and the graph are in ID2STR, the inline
\* literal is not.
C21_Witness ==
    /\ \E q \in dataset : q.object = "l1"
    /\ \E q \in NamedQuads(dataset) :
           /\ q.object = "o1"
           /\ get_str(db, StrHash(q.object)) = q.object
           /\ get_str(db, StrHash(q.graph_name)) = q.graph_name
    /\ \A e \in db["id2str"] : e[2] # "l1"

\* The rows of ID2STR before a writer operation are all there after it.
RowsKept(r) == db["id2str"] \subseteq Committed(r)["id2str"]

\* C22. ID2STR is write-only: in every reachable state every hash is bound to
\* one lexical form, that of the term it is the hash of, and every row is still
\* there, with the same lexical form, after remove, remove_named_graph,
\* clear_graph, clear_all_named_graphs, clear_all_graphs, clear, insert and
\* insert_named_graph.
C22_SideTableWriteOnly ==
    /\ \A e1, e2 \in db["id2str"] : e1[1] = e2[1] => e1 = e2
    /\ \A e \in db["id2str"] : e[1] = StrHash(e[2])
    /\ \A q \in QuadUniverse :
           /\ RowsKept(remove(Writer(db), q))
           /\ RowsKept(insert(Writer(db), q))
    /\ \A g \in NamedGraphs :
           /\ RowsKept(remove_named_graph(Writer(db), g))
           /\ RowsKept(insert_named_graph(Writer(db), g))
    /\ \A g \in GraphNames : RowsKept(clear_graph(Writer(db), g))
    /\ RowsKept(clear_all_named_graphs(Writer(db)))
    /\ RowsKept(clear_all_graphs(Writer(db)))
    /\ RowsKept(remove_all_named_graphs(Writer(db)))
    /\ RowsKept(clear(Writer(db)))

\* clear has emptied the store, and the strings of a subject, of an object and
\* of a graph are still in ID2STR.
C22_Witness ==
    /\ last.op = "clear"
    /\ is_empty(db) /\ named_graphs(db) = << >>
    /\ get_str(db, StrHash("o1")) = "o1"
    /\ \E t \in Subjects : get_str(db, StrHash(t)) = t
    /\ \E g \in NamedGraphs : get_str(db, StrHash(g)) = g

\* C23. Iterators remain fused after an error: once next() of a quad iterator
\* or a graph iterator has returned an Err item, every later call returns None.
C23_FusedAfterError ==
    \A i, j \in 1..Len(it.out) :
        (i < j /\ it.out[i].res = "err") => it.out[j].res = "none"

\* C24. Result ordering: with g unbound quads_for_pattern yields the matching
\* quads of the default graph before those of the named graphs, an iterator
\* polled step by step never yields a default-graph quad (first source) after a
\* named-graph quad (second source), and every scan of one column family yields
\* its keys in strictly ascending order, the decoded quads following the keys.
Ascending(keys) == \A i \in 1..(Len(keys) - 1) : KeyLess(keys[i], keys[i + 1])

C24_ResultOrdering ==
    /\ \A s \in PatternTerms(Subjects), p \in PatternTerms(Predicates),
          o \in PatternTerms(Objects) :
           LET r == quads_for_pattern(db, s, p, o, NoneV)
           IN  /\ \A i, j \in 1..Len(r) :
                      (i < j /\ r[j].graph_name = DefaultGraph)
                      => r[i].graph_name = DefaultGraph
               /\ Range(r) = {q \in Range(quads(db)) : Matches(q, s, p, o, NoneV)}
               /\ Len(r) = Cardinality(Range(r))
    /\ it.kind = "quads" =>
           \A i, j \in 1..Len(it.out) :
               (/\ i < j
                /\ it.out[i].res = "ok"
                /\ it.out[j].res = "ok"
                /\ it.out[j].item.graph_name = DefaultGraph)
               => it.out[i].item.graph_name = DefaultGraph
    /\ \A cf \in ColumnFamilies \ {"id2str"} :
           /\ Ascending(iter(db, cf))
           /\ \A k \in db[cf] : \A n \in 0..Len(k) :
                  Ascending(scan_prefix(db, cf, SubSeq(k, 1, n)))
    /\ \A s \in PatternTerms(Subjects) :
           LET d == dspo_quads(db, IF s = NoneV THEN << >> ELSE <<s>>)
               g == gspo_quads(db, << >>)
           IN  /\ Ascending([i \in 1..Len(d) |-> write_spo_quad(d[i])])
               /\ Ascending([i \in 1..Len(g) |-> write_gspo_quad(g[i])])

C24_Witness ==
    /\ it.kind = "quads"
    /\ Cardinality(db["dspo"]) = 1
    /\ Cardinality(db["gspo"]) = 1
    /\ Len(it.out) = 3
    /\ it.out[1].res = "ok" /\ it.out[1].item.graph_name = DefaultGraph
    /\ it.out[2].res = "ok" /\ it.out[2].item.graph_name = "g1"
    /\ it.out[3].res = "none"

\* The last operation was a scan of the view for the graph term g, with the
\* dataset as the view still has it.
ViewScanned == last.op = "encoded_quads_for_pattern"

\* The quads of the wrapped store in the graphs of G that match the subject of
\* the last scan.
StoreMatches(G) ==
    {q \in Range(quads(dataset_view.store)) :
        q.graph_name \in G /\ Matches(q, last.subject, NoneV, NoneV, NoneV)}

\* C25. Dataset view, default graph unrestricted: a scan for the default-graph
\* marker returns exactly the matching quads of the store's true default graph
\* and no quad of a named graph.
C25_DefaultUnrestricted ==
    (/\ ViewScanned
     /\ last.graph_name = DefaultGraph
     /\ ~dataset_view.default.some
     /\ ~last.fails)
    => Range(last.ret.quads) = StoreMatches({DefaultGraph})

\* The scans of the wrapped store for the graphs of a list, one after the
\* other, each quad under its own graph name or under the default marker.
RECURSIVE ListScan(_, _)
ListScan(graphs, rewrite) ==
    IF graphs = << >> THEN << >>
    ELSE LET r == quads_for_pattern(dataset_view.store, last.subject, NoneV, NoneV,
                                    Head(graphs))
         IN  [i \in 1..Len(r) |->
                 Quad(r[i].subject, r[i].predicate, r[i].object,
                      IF rewrite THEN DefaultGraph ELSE r[i].graph_name)]
             \o ListScan(Tail(graphs), rewrite)

\* C26. Dataset view, default graph restricted to a list: a scan for the
\* default-graph marker returns the store's results for the listed graphs in
\* list order, every graph_name rewritten to the default marker, and the
\* single-graph shortcut gives what the chained path gives.
C26_DefaultRestricted ==
    /\ (/\ ViewScanned
        /\ last.graph_name = DefaultGraph
        /\ dataset_view.default.some)
       => IF last.fails
          THEN last.ret = [quads |-> << >>, err |-> dataset_view.default.list # << >>]
          ELSE /\ last.ret = [quads |-> ListScan(dataset_view.default.list, TRUE),
                              err |-> FALSE]
               /\ \A i \in 1..Len(last.ret.quads) :
                      last.ret.quads[i].graph_name = DefaultGraph
    /\ \A s \in ScanSubjects, g \in GraphNames, fails \in BOOLEAN :
           RewriteToDefault(store_encoded_quads_for_pattern(db, s, NoneV, NoneV, g, fails))
           = RewriteToDefault(Flatten(PerGraph(db, s, NoneV, NoneV, <<g>>, fails)))

C26_Witness ==
    /\ ViewScanned
    /\ last.graph_name = DefaultGraph
    /\ dataset_view.default = SomeGraphs(<<"g2", "g1">>)
    /\ last.ret.quads = <<Quad("s2", "p1", "o1", DefaultGraph),
                          Quad("s1", "p1", "o1", DefaultGraph)>>

\* C27. Dataset view, g bound to a named term: the store's quads for the
\* pattern when the named graphs are unrestricted or g is listed; otherwise
\* nothing, and the store is not scanned (a failing backend goes unnoticed).
C27_NamedBound ==
    (ViewScanned /\ last.graph_name \in NamedGraphs)
    => IF (~dataset_view.named.some) \/ (\E i \in 1..Len(dataset_view.named.list) :
                                             dataset_view.named.list[i] = last.graph_name)
       THEN IF last.fails
            THEN last.ret = [quads |-> << >>, err |-> TRUE]
            ELSE /\ last.ret.quads = quads_for_pattern(dataset_view.store, last.subject,
                                                       NoneV, NoneV, last.graph_name)
                 /\ Range(last.ret.quads) = StoreMatches({last.graph_name})
                 /\ ~last.ret.err
       ELSE last.ret = [quads |-> << >>, err |-> FALSE]

C27_Witness ==
    /\ ViewScanned
    /\ last.graph_name = "g2"
    /\ last.fails
    /\ dataset_view.named = SomeGraphs(<<"g1">>)
    /\ Quad("s2", "p1", "o1", "g2") \in Range(quads(dataset_view.store))
    /\ last.ret = [quads |-> << >>, err |-> FALSE]

\* C28. Dataset view, g unbound and named graphs unrestricted: every matching
\* quad of a named graph, once, never a quad of the default graph, and the Err
\* item of a failing scan is passed through.
C28_UnboundUnrestricted ==
    (ViewScanned /\ last.graph_name = NoneV /\ ~dataset_view.named.some)
    => IF last.fails
       THEN last.ret = [quads |-> << >>, err |-> TRUE]
       ELSE /\ Range(last.ret.quads) = StoreMatches(NamedGraphs)
            /\ Len(last.ret.quads) = Cardinality(Range(last.ret.quads))
            /\ \A i \in 1..Len(last.ret.quads) :
                   last.ret.quads[i].graph_name # DefaultGraph
            /\ ~last.ret.err

C28_Witness ==
    /\ ViewScanned
    /\ last.graph_name = NoneV
    /\ ~last.fails
    /\ ~dataset_view.named.some
    /\ Quad("s1", "p1", "o1", DefaultGraph) \in Range(quads(dataset_view.store))
    /\ last.ret.quads = <<Quad("s1", "p1", "o1", "g1")>>

\* C29. Dataset view, g unbound and named graphs restricted to a list: the
\* store's scans for the listed graphs, each quad under its own graph name, no
\* quad of a graph outside the list and none of the default graph.
C29_UnboundRestricted ==
    (ViewScanned /\ last.graph_name = NoneV /\ dataset_view.named.some)
    => IF last.fails
       THEN last.ret = [quads |-> << >>, err |-> dataset_view.named.list # << >>]
       ELSE /\ last.ret = [quads |-> ListScan(dataset_view.named.list, FALSE),
                           err |-> FALSE]
            /\ Range(last.ret.quads) = StoreMatches(Range(dataset_view.named.list))
            /\ \A i \in 1..Len(last.ret.quads) :
                   /\ last.ret.quads[i].graph_name # DefaultGraph
                   /\ last.ret.quads[i].graph_name \in Range(dataset_view.named.list)

C29_Witness ==
    /\ ViewScanned
    /\ last.graph_name = NoneV
    /\ ~last.fails
    /\ dataset_view.named = SomeGraphs(<<"g1">>)
    /\ Quad("s2", "p1", "o1", "g2") \in Range(quads(dataset_view.store))
    /\ last.ret.quads = <<Quad("s1", "p1", "o1", "g1")>>

C31_GraphLookupUnimplemented ==
    /\ last.op = "encoded_named_graphs" => last.ret = <<"err">>
    /\ last.op = "contains_encoded_named_graph" => last.ret = "err"
    /\ Len(encoded_named_graphs(dataset_view)) = 1
    /\ \A g \in GraphNames : contains_encoded_named_graph(dataset_view, g) = "err"

C31_Witness ==
    /\ last.op = "encoded_named_graphs"
    /\ last.ret = <<"err">>
    /\ dataset_view.named = SomeGraphs(<<"g2", "g1">>)
    /\ named_graphs(dataset_view.store) = <<"g1", "g2">>

\* The quads of a document.
DocQuads(doc) == {doc[i].quad : i \in {j \in 1..Len(doc) : doc[j].ok}}

LoadOps == {"load_graph", "load_dataset", "extend"}

\* C32. Store::load_graph, load_dataset and extend are atomic: while the call
\* runs the committed content, and a snapshot taken of it, is what the call
\* began on; when it has returned Ok every quad of the input is there; when it
\* has returned Err (syntax error anywhere, or failing insert) the store is
\* exactly as it was.
C32_StoreLoadAtomic ==
    /\ load.kind = "store" =>
           /\ db = load.pre
           /\ (snap.live /\ snap.at = Len(history)) =>
                  reader_view(snap, history, db) = load.pre
    /\ (last.op \in LoadOps /\ last.kind = "store") =>
           IF last.ret = "ok"
           THEN /\ \A i \in 1..Len(last.doc) : last.doc[i].ok
                /\ Range(quads(db)) = Range(quads(last.pre)) \cup DocQuads(last.doc)
           ELSE db = last.pre
    /\ Range(quads(db)) = dataset

C32_Witness ==
    /\ last.op = "load_dataset"
    /\ last.kind = "store"
    /\ last.ret = "err"
    /\ collect(last.doc).ok
    /\ Len(tx["T1"].ops) = 1
    /\ tx["T1"].outcome = "err"
    /\ db = last.pre
    /\ snap.live /\ snap.at = Len(history)

\* The quads the running or last call of client T1 has inserted.
Inserted == {tx["T1"].ops[i].arg : i \in 1..Len(tx["T1"].ops)}

\* C38. Transaction::load_graph and load_dataset insert the quads one at a
\* time as they are parsed: when the load has returned Err after k items, the
\* k quads are in the transaction's view and not in the committed content; a
\* closure that then returns Ok commits them, one that returns Err discards
\* them.
C38_TxLoadPartial ==
    /\ (load.kind = "tx" /\ load.ret = "err") =>
           LET k == Len(load.doc) - Len(load.pending)
           IN  /\ Inserted = {load.doc[i].quad : i \in 1..k}
               /\ Range(quads(reader(tx["T1"].w))) = Range(quads(load.pre)) \cup Inserted
               /\ db = load.pre
    /\ (load.kind = "none" /\ last.op \in LoadOps /\ last.kind = "tx"
          /\ last.load = "err") =>
           IF last.ret = "ok"
           THEN Range(quads(db)) = Range(quads(last.pre)) \cup Inserted
           ELSE db = last.pre

C38_Witness ==
    /\ load.kind = "none"
    /\ last.op = "load_dataset"
    /\ last.kind = "tx"
    /\ last.load = "err"
    /\ last.ret = "ok"
    /\ ~collect(last.doc).ok
    /\ Inserted = {Quad("s2", "p1", "o1", "g1")}
    /\ Quad("s2", "p1", "o1", "g1") \in Range(quads(db)) \ Range(quads(last.pre))
    /\ Quad("s1", "p1", "o1", DefaultGraph) \notin Range(quads(db))

\* What two writer operations leave and return when the second runs on what
\* the first has committed: [db, rets].
Serial(d, op1, arg1, op2, arg2) ==
    LET r1 == WriterOp(Writer(d), op1, arg1)
        r2 == WriterOp(Writer(Committed(r1)), op2, arg2)
    IN  [db |-> Committed(r2), ret1 |-> Returned(r1.ret), ret2 |-> Returned(r2.ret)]

\* C33. Concurrent insert versus graph removal: when T1 has inserted a quad
\* into the registered graph g1 and T2 has called remove_named_graph(g1), both
\* committed, the content and the return values are those of one of the two
\* serial orders; and no committed state holds a key of a G-index whose graph
\* is not in GRAPHS.
C33_InsertVsRemoveGraph ==
    /\ (/\ snap.live
        /\ contains_named_graph(snap.committed, "g1")
        /\ tx["T1"].outcome = "ok"
        /\ tx["T1"].ops = <<[op |-> "insert", arg |-> RaceQuad]>>
        /\ tx["T2"].outcome = "ok"
        /\ tx["T2"].ops = <<[op |-> "remove_named_graph", arg |-> "g1"]>>)
       => LET s12 == Serial(snap.committed, "insert", RaceQuad, "remove_named_graph", "g1")
              s21 == Serial(snap.committed, "remove_named_graph", "g1", "insert", RaceQuad)
          IN  \/ /\ db = s12.db
                 /\ tx["T1"].rets = <<s12.ret1>>
                 /\ tx["T2"].rets = <<s12.ret2>>
              \/ /\ db = s21.db
                 /\ tx["T2"].rets = <<s21.ret1>>
                 /\ tx["T1"].rets = <<s21.ret2>>
    /\ \A cf \in {"spog", "posg", "ospg", "gspo", "gpos", "gosp"} :
           \A k \in db[cf] : contains_named_graph(db, KeyGraph(cf, k))

C33_Witness ==
    /\ snap.live
    /\ contains_named_graph(snap.committed, "g1")
    /\ Quad("s2", "p1", "o1", "g1") \in Range(quads(snap.committed))
    /\ tx["T1"].outcome = "ok"
    /\ tx["T1"].ops = <<[op |-> "insert", arg |-> RaceQuad]>>
    /\ tx["T2"].outcome = "ok"
    /\ tx["T2"].ops = <<[op |-> "remove_named_graph", arg |-> "g1"]>>
    /\ tx["T1"].retried
    /\ Range(quads(db)) = {RaceQuad}
    /\ contains_named_graph(db, "g1")

\* The selector table: the D-index, the G-index behind a graph term and the
\* index chained when g is unbound, with the prefix of the bound terms.
TableRow(s, p, o) ==
    IF s # NoneV THEN
        IF p # NoneV THEN
            IF o # NoneV
            THEN [d |-> "dspo", g |-> "gspo", u |-> "spog", prefix |-> <<s, p, o>>]
            ELSE [d |-> "dspo", g |-> "gspo", u |-> "spog", prefix |-> <<s, p>>]
        ELSE IF o # NoneV
            THEN [d |-> "dosp", g |-> "gosp", u |-> "ospg", prefix |-> <<o, s>>]
            ELSE [d |-> "dspo", g |-> "gspo", u |-> "spog", prefix |-> <<s>>]
    ELSE
        IF p # NoneV THEN
            IF o # NoneV
            THEN [d |-> "dpos", g |-> "gpos", u |-> "posg", prefix |-> <<p, o>>]
            ELSE [d |-> "dpos", g |-> "gpos", u |-> "posg", prefix |-> <<p>>]
        ELSE IF o # NoneV
            THEN [d |-> "dosp", g |-> "gosp", u |-> "ospg", prefix |-> <<o>>]
            ELSE [d |-> "dspo", g |-> "gspo", u |-> "gspo", prefix |-> << >>]

\* The scan of one column family: its keys with the prefix, in key order, each
\* read back as the quad it stands for.
TableScan(cf, prefix) ==
    LET keys == SortKeys({k \in db[cf] : SubSeq(k, 1, Len(prefix)) = prefix})
        At(k, field) ==
            CASE cf \in {"dspo", "dpos", "dosp"} /\ field = "g" -> DefaultGraph
              [] cf \in {"dspo", "spog"} -> k[CASE field = "s" -> 1 [] field = "p" -> 2
                                              [] field = "o" -> 3 [] field = "g" -> 4]
              [] cf \in {"dpos", "posg"} -> k[CASE field = "p" -> 1 [] field = "o" -> 2
                                              [] field = "s" -> 3 [] field = "g" -> 4]
              [] cf \in {"dosp", "ospg"} -> k[CASE field = "o" -> 1 [] field = "s" -> 2
                                              [] field = "p" -> 3 [] field = "g" -> 4]
              [] cf = "gspo" -> k[CASE field = "g" -> 1 [] field = "s" -> 2
                                    [] field = "p" -> 3 [] field = "o" -> 4]
              [] cf = "gpos" -> k[CASE field = "g" -> 1 [] field = "p" -> 2
                                    [] field = "o" -> 3 [] field = "s" -> 4]
              [] cf = "gosp" -> k[CASE field = "g" -> 1 [] field = "o" -> 2
                                    [] field = "s" -> 3 [] field = "p" -> 4]
    IN  [i \in 1..Len(keys) |->
            Quad(At(keys[i], "s"), At(keys[i], "p"), At(keys[i], "o"), At(keys[i], "g"))]

\* C34. Selector table: for each of the 16 bound/unbound combinations
\* quads_for_pattern is the scan the table gives: the D-index with the prefix
\* when g is the default graph, the G-index with g before the prefix when g is
\* named, and the D-index scan followed by the scan of the third index with the
\* same prefix when g is unbound (GSPO when nothing is bound).
C34_SelectorTable ==
    \A s \in PatternTerms(Subjects), p \in PatternTerms(Predicates),
       o \in PatternTerms(Objects), g \in PatternTerms(GraphNames) :
        LET row == TableRow(s, p, o)
        IN  quads_for_pattern(db, s, p, o, g) =
                IF g = NoneV
                THEN TableScan(row.d, row.prefix) \o TableScan(row.u, row.prefix)
                ELSE IF g = DefaultGraph
                THEN TableScan(row.d, row.prefix)
                ELSE TableScan(row.g, <<g>> \o row.prefix)

C34_Witness ==
    /\ quads_for_pattern(db, NoneV, NoneV, NoneV, NoneV) =
           <<Quad("s2", "p1", "o1", "g1"), Quad("s1", "p1", "o1", "g2")>>
    /\ quads_for_pattern(db, NoneV, "p1", NoneV, NoneV) =
           <<Quad("s1", "p1", "o1", "g2"), Quad("s2", "p1", "o1", "g1")>>
    /\ quads_for_pattern(db, "s2", NoneV, "o1", "g1") = <<Quad("s2", "p1", "o1", "g1")>>

\* C35. No-op frame: insert of a quad that is present returns false, remove of
\* a quad that is absent returns false, and a call that returns false leaves
\* the nine quad indices, GRAPHS and ID2STR of the transaction's view as they
\* were.
C35_NoOpFrame ==
    \A q \in QuadUniverse :
        LET i == insert(Writer(db), q)
            r == remove(Writer(db), q)
        IN  /\ (q \in Range(quads(db))) = (i.ret = FALSE)
            /\ (q \notin Range(quads(db))) = (r.ret = FALSE)
            /\ i.ret = FALSE => \A cf \in ColumnFamilies : reader(i.w)[cf] = db[cf]
            /\ r.ret = FALSE => \A cf \in ColumnFamilies : reader(r.w)[cf] = db[cf]

C35_Witness ==
    /\ last.op = "insert"
    /\ last.ret = "false"
    /\ len(db) = 2
    /\ \E q \in Range(quads(db)) : ~is_default_graph(q.graph_name)
    /\ \E q \in QuadUniverse \ Range(quads(db)) :
           /\ contains_named_graph(db, q.graph_name)
           /\ remove(Writer(db), q).ret = FALSE

\* C36. clear_all_named_graphs removes every quad of a named graph and leaves
\* the default-graph triples and every GRAPHS row; clear_all_graphs removes
\* every quad and leaves every GRAPHS row, so that len is 0 and named_graphs is
\* what it was.
C36_ClearAllKeepsRegistry ==
    LET n == reader(clear_all_named_graphs(Writer(db)).w)
        a == reader(clear_all_graphs(Writer(db)).w)
    IN  /\ Range(quads(n)) = {q \in Range(quads(db)) : is_default_graph(q.graph_name)}
        /\ \A cf \in {"spog", "posg", "ospg", "gspo", "gpos", "gosp"} : n[cf] = {}
        /\ \A cf \in {"dspo", "dpos", "dosp", "graphs"} : n[cf] = db[cf]
        /\ named_graphs(n) = named_graphs(db)
        /\ \A cf \in ColumnFamilies \ {"graphs", "id2str"} : a[cf] = {}
        /\ a["graphs"] = db["graphs"]
        /\ len(a) = 0
        /\ named_graphs(a) = named_graphs(db)

C36_Witness ==
    /\ Cardinality(db["dspo"]) = 1
    /\ Cardinality(db["gspo"]) = 1
    /\ Len(named_graphs(db)) = 2
    /\ len(reader(clear_all_named_graphs(Writer(db)).w)) = 1
    /\ len(reader(clear_all_graphs(Writer(db)).w)) = 0
    /\ Len(named_graphs(reader(clear_all_graphs(Writer(db)).w))) = 2

\* The graphs of a requested list that some quad of the dataset names, in the
\* order of the list.
Encodable(D, graphs) ==
    SelectSeq(graphs, LAMBDA g : is_default_graph(g) \/ \E q \in D : q.graph_name = g)

\* C37. DatasetView::new leaves out of the default-graph list and of the
\* named-graph list every graph the store cannot encode, without an error; a
\* default-graph list that was given stays a list even when every graph of it
\* was left out, and a scan for the default-graph marker then yields nothing
\* and does not fall back to the store's default graph.
C37_UnknownGraphsDropped ==
    /\ \A default \in ViewDefaults, named \in ViewNamed :
           LET view == DatasetView_new(db, default, named)
           IN  /\ view.default = [some |-> default.some,
                                  list |-> Encodable(dataset, default.list)]
               /\ view.named = [some |-> named.some,
                                list |-> Encodable(dataset, named.list)]
               /\ (default.some /\ view.default.list = << >>)
                  => \A s \in ScanSubjects, fails \in BOOLEAN :
                         encoded_quads_for_pattern(view, s, NoneV, NoneV, DefaultGraph, fails)
                         = [quads |-> << >>, err |-> FALSE]
    /\ (/\ ViewScanned
        /\ last.graph_name = DefaultGraph
        /\ dataset_view.default = SomeGraphs(<< >>))
       => last.ret = [quads |-> << >>, err |-> FALSE]

C37_Witness ==
    /\ ViewScanned
    /\ last.graph_name = DefaultGraph
    /\ last.subject = "s1"
    /\ ~last.fails
    /\ dataset_view.default = SomeGraphs(<< >>)
    /\ dataset_view.named = SomeGraphs(<< >>)
    /\ last.ret.quads = << >>
    /\ quads_for_pattern(dataset_view.store, "s1", NoneV, NoneV, DefaultGraph)
           = <<Quad("s1", "p1", "o1", DefaultGraph)>>
    /\ DatasetView_new(db, SomeGraphs(<<"g2", "g1">>), SomeGraphs(<<"g2", "g1">>)).named
           = SomeGraphs(<<"g1">>)
    /\ DatasetView_new(dataset_view.store, SomeGraphs(<<"g2", "g1">>), SomeGraphs(<<"g2", "g1">>))
           = [dataset_view EXCEPT !.extra = {}]

\* The number of bytes the first j requests of the log drew from the
\* zero-seeded generator (seeded = FALSE) or from its replacement.
RECURSIVE Drawn(_, _)
Drawn(seeded, j) ==
    IF j = 0 THEN 0
    ELSE Drawn(seeded, j - 1)
         + (IF (rng.out[j].call = "replied") = seeded THEN Len(rng.out[j].buf) ELSE 0)

\* C39. RNG seeding with the internal generator: init only schedules the
\* timer; a custom_getrandom request served before the reply of raw_rand is
\* processed succeeds and draws from the generator seeded with 32 zero bytes;
\* after a successful reply the generator is the one seeded with the returned
\* bytes; a failed reply panics and leaves the zero-seeded generator.
C39_RngSeeding ==
    /\ rng.timer \in {"none", "scheduled"} => rng.call = "none"
    /\ rng.call \in {"none", "pending", "panicked"} => rng.seed = ZeroSeed
    /\ rng.call = "replied" => rng.seed = rng.reply /\ rng.reply \in SeedBytes
    /\ rng.pos = Drawn(rng.call = "replied", Len(rng.out))
    /\ \A i \in 1..Len(rng.out) :
           LET seeded == rng.out[i].call = "replied"
               seed == IF seeded THEN rng.reply ELSE ZeroSeed
               pos == Drawn(seeded, i - 1)
           IN  /\ rng.out[i].ret = "ok"
               /\ seeded => rng.call = "replied"
               /\ rng.out[i].buf =
                      [k \in 1..Len(rng.out[i].buf) |-> StdRng_byte(seed, pos + k - 1)]

C39_Witness ==
    /\ rng.call = "replied"
    /\ rng.seed = 2
    /\ Len(rng.out) = 3
    /\ rng.out[1] = [ret |-> "ok", buf |-> <<3, 8>>, call |-> "none"]
    /\ rng.out[2] = [ret |-> "ok", buf |-> <<13>>, call |-> "pending"]
    /\ rng.out[3] = [ret |-> "ok", buf |-> <<35, 40>>, call |-> "replied"]

C39_WitnessPanic ==
    /\ rng.call = "panicked"
    /\ rng.seed = ZeroSeed
    /\ Len(rng.out) = 2
    /\ rng.out[1] = [ret |-> "ok", buf |-> <<3>>, call |-> "pending"]
    /\ rng.out[2] = [ret |-> "ok", buf |-> <<8>>, call |-> "panicked"]

====
